---------------------------- MODULE Spec2Model ----------------------------
(***************************************************************************)
(* MillELO: the match engine of src/main.py.                               *)
(*                                                                         *)
(*   NineMensMorris      the board rules (class NineMensMorris)            *)
(*   LichessStyleTimer   the per-match clock (class LichessStyleTimer)     *)
(*   game_data           the match session record kept in games[room_id]   *)
(*   users               the rating records touched by update_ratings      *)
(*   tournaments         the score table touched by update_tournament_scores*)
(*   game_rooms, games   the casual seek queue and the matches it makes     *)
(*   tournament_recent_opponents, players_in_game_menu, paused_users        *)
(*                       what the tournament pairing engine reads           *)
(*                                                                         *)
(* In the specifications of the board, the session and the clock one match *)
(* is modelled (variables game, gd, timer) and the lobby is idle; in the    *)
(* specifications of the matchmaker and the pairing engine the matches are  *)
(* the entries of games.  The white player of the one match is "alice", its  *)
(* black player "bob" (the colours are drawn at random, the names carry no *)
(* behaviour).  Python None is NoPos for a position, "none" elsewhere.     *)
(* Times are integers in half seconds, so that the halving done by         *)
(* on_berserk is exact (Seconds converts).                                 *)
(***************************************************************************)
EXTENDS Integers, Sequences, FiniteSets, TLC

VARIABLES game, gd, timer, users, tournaments, players_in_game_menu, now,
          last, steps, script, owed,
          game_rooms, games, banned_users, paused_users,
          tournament_recent_opponents, delayed_requeue

vars == <<game, gd, timer, users, tournaments, players_in_game_menu, now,
          last, steps, script, owed,
          game_rooms, games, banned_users, paused_users,
          tournament_recent_opponents, delayed_requeue>>

\* the seek queue, the registry of matches made by the matchmaker and the
\* pairing engine, the policy flags, the last-opponent records and the
\* sleeping delayed_requeue threads of on_tournament_back_to_lobby
lobby == <<game_rooms, games, banned_users, paused_users,
           tournament_recent_opponents, delayed_requeue>>

---------------------------------------------------------------------------
(* Bounds of the model *)

\* board positions a client request may name are 0..MaxPos
MaxPos == 4
\* client positions in the session specification are 0..MaxSessionPos
MaxSessionPos == 2
\* requests explored after the recorded game
MaxSteps == 1
\* operations explored in the session specification
MaxSessionSteps == 4
\* wall clock horizon, in seconds
MaxNowSeconds == 80
\* side switches explored in the clock specification
MaxClockSwitches == 2
\* player requests explored in a match whose pollers run freely
MaxLiveSteps == 2
\* events explored in the matchmaker specification
MaxLobbySteps == 4
\* events explored in the pairing engine specification
MaxArenaSteps == 5
\* pairings of the same two players after their first tournament match
MaxRematches == 3
\* matches of the same two players after their first rated match
MaxRatedRematches == 1
\* hours from now for which the daily arenas are created (the code
\* creates them for 7 days)
MaxHoursAhead == 1
\* steps of time explored in the calendar specification
MaxSchedTicks == 2
\* days from today for which the creation pass creates the weekly arenas
\* (the code creates them for 14 days)
MaxDaysAhead == 0
\* events explored when the matchmaker and the pairing engine run side by
\* side
MaxHallSteps == 3

---------------------------------------------------------------------------
(* Values *)

NoPos == -1
Positions == 0..23
Colors == {"white", "black"}
Seconds(s) == s + s

WhiteUser == "alice"
BlackUser == "bob"
Usernames == {WhiteUser, BlackUser}

TIMER_RUNNING == "running"
TIMER_PAUSED == "paused"
TIMER_EXPIRED == "expired"

Other(color) == IF color = "white" THEN "black" ELSE "white"

\* max() keeping its second argument
MaxRight(a, b) == b

Max(a, b) == IF a >= b THEN a ELSE b

---------------------------------------------------------------------------
(* class NineMensMorris *)

mills ==
  { {0, 1, 2}, {3, 4, 5}, {6, 7, 8}, {9, 10, 11}, {12, 13, 14}, {15, 16, 17},
    {18, 19, 20}, {21, 22, 23},
    {0, 9, 21}, {3, 10, 18}, {6, 11, 15}, {1, 4, 7}, {16, 19, 22},
    {8, 12, 17}, {5, 13, 20}, {2, 14, 23} }

adjacents ==
  [p \in Positions |->
     CASE p = 0 -> {1, 9}          [] p = 1 -> {0, 2, 4}
       [] p = 2 -> {1, 14}         [] p = 3 -> {4, 10}
       [] p = 4 -> {1, 3, 5, 7}    [] p = 5 -> {4, 13}
       [] p = 6 -> {7, 11}         [] p = 7 -> {4, 6, 8}
       [] p = 8 -> {7, 12}         [] p = 9 -> {0, 10, 21}
       [] p = 10 -> {3, 9, 11, 18} [] p = 11 -> {6, 10, 15}
       [] p = 12 -> {8, 13, 17}    [] p = 13 -> {5, 12, 14, 20}
       [] p = 14 -> {2, 13, 23}    [] p = 15 -> {11, 16}
       [] p = 16 -> {15, 17, 19}   [] p = 17 -> {12, 16}
       [] p = 18 -> {10, 19}       [] p = 19 -> {16, 18, 20, 22}
       [] p = 20 -> {13, 19}       [] p = 21 -> {9, 22}
       [] p = 22 -> {19, 21, 23}   [] p = 23 -> {14, 22}]

\* NineMensMorris.__init__
NewBoardGame ==
  [board |-> [p \in Positions |-> "none"],
   phase |-> 1,
   current_player |-> "white",
   white_pieces |-> 9,
   black_pieces |-> 9,
   total_pieces_placed |-> 0,
   moves |-> << >>]

\* sum(1 for piece in board if piece == color)
PieceCount(board, color) == Cardinality({p \in Positions : board[p] = color})

\* NineMensMorris.is_mill
is_mill(g, position) ==
  LET player == g.board[position]
  IN  /\ player # "none"
      /\ \E mill \in mills :
            /\ position \in mill
            /\ \A pos \in mill : g.board[pos] = player

can_remove_any_opponent(g, position) ==
  ~ (g.board[position] = "none" \/ g.board[position] = g.current_player)

\* NineMensMorris.can_remove
can_remove(g, position) ==
  IF g.board[position] = "none" \/ g.board[position] = g.current_player
  THEN FALSE
  ELSE ~ is_mill(g, position)

PlacePieceBeforeCheck(g, to_pos) ==
  LET g1 == [g EXCEPT !.total_pieces_placed = @ + 1]
  IN  IF g.board[to_pos] # "none"
      THEN [ok |-> FALSE, g |-> g1]
      ELSE [ok |-> TRUE,
            g |-> [g1 EXCEPT
                     !.board[to_pos] = g.current_player,
                     !.white_pieces =
                        IF g.current_player = "white" THEN @ - 1 ELSE @,
                     !.black_pieces =
                        IF g.current_player = "white" THEN @ ELSE @ - 1,
                     !.phase = IF g1.total_pieces_placed >= 18 THEN 2 ELSE @]]

\* make_move, "Placing phase": [ok, g]; ok = FALSE is "return False"
PlacePiece(g, to_pos) ==
  IF g.board[to_pos] # "none"
  THEN [ok |-> FALSE, g |-> g]
  ELSE LET g1 == [g EXCEPT
                    !.board[to_pos] = g.current_player,
                    !.white_pieces =
                       IF g.current_player = "white" THEN @ - 1 ELSE @,
                    !.black_pieces =
                       IF g.current_player = "white" THEN @ ELSE @ - 1,
                    !.total_pieces_placed = @ + 1]
       IN  [ok |-> TRUE,
            g |-> [g1 EXCEPT !.phase =
                     IF g1.total_pieces_placed >= 18 THEN 2 ELSE @]]

MayReachByPhase(g, from_pos, to_pos) ==
  g.phase = 3 \/ to_pos \in adjacents[from_pos]

\* make_move, the flying test of the moving and of the flying branch:
\* a side with exactly 3 pieces reaches any position, another side only
\* an adjacent one
MayReach(g, from_pos, to_pos) ==
  PieceCount(g.board, g.current_player) = 3
  \/ to_pos \in adjacents[from_pos]

RelocateKeepingFrom(g, from_pos, to_pos) ==
  [g EXCEPT !.board[to_pos] = g.current_player]

\* make_move: board[from_pos] = None; board[to_pos] = current_player
Relocate(g, from_pos, to_pos) ==
  [g EXCEPT !.board[from_pos] = "none", !.board[to_pos] = g.current_player]

\* make_move, "Moving phase" and "Flying phase": the two branches run the
\* same checks, only the moving branch sets phase 3.  board[None] raises
\* TypeError, which ends the handler like "return False"
MovePiece(g, from_pos, to_pos) ==
  IF from_pos = NoPos
  THEN [ok |-> FALSE, g |-> g]
  ELSE IF g.board[from_pos] # g.current_player \/ g.board[to_pos] # "none"
  THEN [ok |-> FALSE, g |-> g]
  ELSE IF ~ MayReach(g, from_pos, to_pos)
  THEN [ok |-> FALSE, g |-> g]
  ELSE LET g1 == Relocate(g, from_pos, to_pos)
       IN  [ok |-> TRUE,
            g |-> IF g.phase = 2
                     /\ (PieceCount(g1.board, "white") = 3
                         \/ PieceCount(g1.board, "black") = 3)
                  THEN [g1 EXCEPT !.phase = 3]
                  ELSE g1]

\* the part of make_move before "Handle piece removal after mill"
MovePart(g, from_pos, to_pos) ==
  IF g.phase = 1 THEN PlacePiece(g, to_pos)
  ELSE MovePiece(g, from_pos, to_pos)


\* any(self.can_remove(pos) for pos in opponent_pieces)
CanRemoveAny(g) ==
  \E pos \in Positions :
     g.board[pos] = Other(g.current_player) /\ can_remove(g, pos)

\* make_move from "Handle piece removal after mill" to its return: g1 is
\* the game after the piece was placed or moved
HandleRemoval(g1, from_pos, to_pos, remove_pos) ==
  LET mill_formed == is_mill(g1, to_pos)
      piece_removed ==
        mill_formed /\ remove_pos # NoPos /\ can_remove(g1, remove_pos)
      g2 == IF piece_removed
            THEN [g1 EXCEPT !.board[remove_pos] = "none"]
            ELSE g1
      can_remove_any == mill_formed /\ CanRemoveAny(g2)
      entry == [from |-> from_pos, to |-> to_pos,
                remove |-> IF piece_removed THEN remove_pos ELSE NoPos,
                player |-> g1.current_player,
                mill |-> mill_formed]
  IN [success |-> TRUE,
      g |-> [g2 EXCEPT
               !.moves = Append(@, entry),
               !.current_player =
                  IF ~ mill_formed \/ (mill_formed /\ piece_removed)
                     \/ (mill_formed /\ ~ can_remove_any)
                  THEN Other(@) ELSE @],
      mill_formed |-> mill_formed,
      waiting_for_removal |->
         mill_formed /\ remove_pos = NoPos /\ can_remove_any,
      piece_removed |-> piece_removed,
      can_remove_any |-> can_remove_any,
      mid |-> g1]

\* make_move after its phase branch: mp is what the branch returned
AfterMovePart(mp, from_pos, to_pos, remove_pos) ==
  IF ~ mp.ok
  THEN [success |-> FALSE, g |-> mp.g, mill_formed |-> FALSE,
        waiting_for_removal |-> FALSE, piece_removed |-> FALSE,
        can_remove_any |-> FALSE, mid |-> mp.g]
  ELSE HandleRemoval(mp.g, from_pos, to_pos, remove_pos)

\* NineMensMorris.make_move; success = FALSE is the code's "return False"
make_move(g, from_pos, to_pos, remove_pos) ==
  AfterMovePart(MovePart(g, from_pos, to_pos), from_pos, to_pos, remove_pos)

\* move.get('mill', False) or move.get('remove'): a removed position 0 is
\* falsy in Python, as is None
RecordsMillOrRemove(move) ==
  move.mill \/ (move.remove # NoPos /\ move.remove # 0)

\* NineMensMorris.get_winner; "none" is the code's None
get_winner(g) ==
  LET white_pieces == PieceCount(g.board, "white")
      black_pieces == PieceCount(g.board, "black")
      n == Len(g.moves)
  IN  IF g.phase >= 2 /\ white_pieces <= 2 THEN "black"
      ELSE IF g.phase >= 2 /\ black_pieces <= 2 THEN "white"
      ELSE IF n >= 50
              /\ ~ \E i \in (n - 49)..n : RecordsMillOrRemove(g.moves[i])
           THEN "draw"
      ELSE "none"

---------------------------------------------------------------------------
(* class LichessStyleTimer; t.registered says game_id is in game_timers,  *)
(* t.thread says the poller thread started by start_game_timer is alive   *)

\* LichessStyleTimer.__init__ followed by start_game_timer's
\* "timer.state = TIMER_PAUSED" under the same lock
NewTimer(base_time, increment, t0) ==
  [registered |-> TRUE, thread |-> TRUE,
   white_time |-> base_time, black_time |-> base_time,
   increment |-> increment,
   active_player |-> "white",
   state |-> TIMER_PAUSED,
   last_update |-> t0,
   move_count |-> 0]

\* LichessStyleTimer.get_current_times (the timer after the call; the
\* returned times are its white_time and black_time)
get_current_times(t, current_time) ==
  LET elapsed == current_time - t.last_update
      t1 == IF t.state = TIMER_RUNNING
            THEN IF t.active_player = "white"
                 THEN [t EXCEPT !.white_time = Max(0, @ - elapsed)]
                 ELSE [t EXCEPT !.black_time = Max(0, @ - elapsed)]
            ELSE t
  IN  [t1 EXCEPT !.last_update = current_time]

\* LichessStyleTimer.switch_player
switch_player(t, new_player, current_time) ==
  IF t.state # TIMER_RUNNING
  THEN [t |-> t, increment_applied |-> FALSE]
  ELSE
    LET elapsed == current_time - t.last_update
        t1 == IF t.active_player = "white"
              THEN [t EXCEPT !.white_time = Max(0, @ - elapsed)]
              ELSE [t EXCEPT !.black_time = Max(0, @ - elapsed)]
        applied == t.increment > 0 /\ t.move_count >= 0
        t2 == IF applied
              THEN IF t1.active_player = "white"
                   THEN [t1 EXCEPT !.white_time = @ + t.increment]
                   ELSE [t1 EXCEPT !.black_time = @ + t.increment]
              ELSE t1
    IN [t |-> [t2 EXCEPT !.active_player = new_player,
                         !.move_count = @ + 1,
                         !.last_update = current_time],
        increment_applied |-> applied]

\* LichessStyleTimer.pause
pause(t, current_time) ==
  IF t.state = TIMER_RUNNING
  THEN [get_current_times(t, current_time) EXCEPT !.state = TIMER_PAUSED]
  ELSE t

resume_keeping_last_update(t, current_time) ==
  IF t.state = TIMER_PAUSED
  THEN [t EXCEPT !.state = TIMER_RUNNING]
  ELSE t

\* LichessStyleTimer.resume
resume(t, current_time) ==
  IF t.state = TIMER_PAUSED
  THEN [t EXCEPT !.state = TIMER_RUNNING, !.last_update = current_time]
  ELSE t

\* times[self.active_player]
ActiveTime(t) == IF t.active_player = "white" THEN t.white_time
                 ELSE t.black_time

\* the remaining time of a colour
TimeOf(t, color) == IF color = "white" THEN t.white_time ELSE t.black_time

---------------------------------------------------------------------------
(* Rating engine *)

\* get_rating_type
get_rating_type(time_control) ==
  IF time_control \in {"1+0", "1+1", "2+1"} THEN "bullet" ELSE "blitz"

\* parse_time_control, and the same parsing inlined in start_game_timer:
\* <<base_time, increment>> in the model's time unit
parse_time_control(time_control) ==
  CASE time_control = "1+0" -> <<Seconds(60), Seconds(0)>>
    [] time_control = "1+1" -> <<Seconds(60), Seconds(1)>>
    [] time_control = "2+1" -> <<Seconds(120), Seconds(1)>>
    [] time_control = "3+0" -> <<Seconds(180), Seconds(0)>>
    [] time_control = "3+2" -> <<Seconds(180), Seconds(2)>>
    [] time_control = "5+0" -> <<Seconds(300), Seconds(0)>>

\* calculate_k_factor without the tiers
calculate_k_factor_flat(rating) == 32

\* calculate_k_factor
calculate_k_factor(rating) ==
  IF rating < 1500 THEN 32 ELSE IF rating < 2000 THEN 24 ELSE 16

\* The rating differences d = black_rating - white_rating at which
\* round(k * (score - 1 / (1 + 10 ** (d / 400)))) steps up by one, for the
\* three K factors (the values of the code's float expression, tabulated)
EloSteps(k) ==
  CASE k = 32 ->
         {-719, -523, -428, -364, -314, -273, -237, -205, -176, -149, -124,
          -100, -77, -54, -32, -10, 11, 33, 55, 78, 101, 125, 150, 177, 206,
          238, 274, 315, 365, 429, 524, 720}
    [] k = 24 ->
         {-668, -470, -373, -307, -254, -210, -172, -136, -104, -73, -43,
          -14, 15, 44, 74, 105, 137, 173, 211, 255, 308, 374, 471, 669}
    [] k = 16 ->
         {-596, -394, -292, -221, -162, -112, -65, -21, 22, 66, 113, 163,
          222, 293, 395, 597}

\* round(white_k * (white_score - expected_white)); score2 is twice the score
white_rating_change_raw(k, score2, d) ==
  (k * (score2 - 2)) \div 2 + Cardinality({b \in EloSteps(k) : b <= d})

\* round(black_k * (black_score - expected_black))
black_rating_change_raw(k, score2, d) ==
  (k * score2) \div 2 - Cardinality({b \in EloSteps(k) : b <= d})

\* abs() losing the magnitude
AbsFlat(x) == 0

Abs(x) == IF x < 0 THEN -x ELSE x

\* update_ratings: the users table after the call
update_ratings(us, g_data, winner) ==
  LET white == g_data.white
      black == g_data.black
      rating_type == get_rating_type(g_data.time_control)
      white_rating == us[white].rating[rating_type]
      black_rating == us[black].rating[rating_type]
      counted ==
        [us EXCEPT
           ![white].games_played[rating_type] = @ + 1,
           ![black].games_played[rating_type] = @ + 1,
           ![white].wins[rating_type] = IF winner = "white" THEN @ + 1 ELSE @,
           ![black].wins[rating_type] = IF winner = "black" THEN @ + 1 ELSE @,
           ![white].losses[rating_type] =
              IF winner = "black" THEN @ + 1 ELSE @,
           ![black].losses[rating_type] =
              IF winner = "white" THEN @ + 1 ELSE @,
           ![white].draws[rating_type] =
              IF winner \notin Colors THEN @ + 1 ELSE @,
           ![black].draws[rating_type] =
              IF winner \notin Colors THEN @ + 1 ELSE @]
  IN
  IF g_data.game_type = "friendly"
  THEN counted
  ELSE
    LET white_k == calculate_k_factor(white_rating)
        black_k == calculate_k_factor(black_rating)
        white_score2 == IF winner = "white" THEN 2
                        ELSE IF winner = "black" THEN 0 ELSE 1
        black_score2 == 2 - white_score2
        d == black_rating - white_rating
        wr == white_rating_change_raw(white_k, white_score2, d)
        br == black_rating_change_raw(black_k, black_score2, d)
        \* minimum change of 1 for decisive games
        wm == IF winner # "draw" /\ Abs(wr) < 1
              THEN (IF white_score2 > 1 THEN 1 ELSE -1) ELSE wr
        bm == IF winner # "draw" /\ Abs(br) < 1
              THEN (IF black_score2 > 1 THEN 1 ELSE -1) ELSE br
        \* 400 gap protection
        elo_gap == Abs(white_rating - black_rating)
        white_rating_change ==
          IF elo_gap >= 400 /\ winner = "white" /\ white_rating > black_rating
          THEN 0 ELSE wm
        black_rating_change ==
          IF elo_gap >= 400 /\ winner = "black" /\ black_rating > white_rating
          THEN 0 ELSE bm
    IN [counted EXCEPT
          ![white].rating[rating_type] =
             Max(50, white_rating + white_rating_change),
          ![black].rating[rating_type] =
             Max(50, black_rating + black_rating_change)]

---------------------------------------------------------------------------
(* Tournament scores *)

\* points of a win that leave the run of wins out
WinPointsWithoutStreak(berserk, new_streak) ==
  IF berserk THEN 3 ELSE 2

\* points of a win in update_tournament_scores
WinPoints(berserk, new_streak) ==
  IF berserk /\ new_streak >= 3 THEN 5
  ELSE IF new_streak >= 3 THEN 4
  ELSE IF berserk THEN 3
  ELSE 2

\* update_tournament_scores: the tournament after the call
update_tournament_scores(tour, g_data, winner) ==
  IF g_data.tournament_id = "none" \/ ~ tour.exists
  THEN tour
  ELSE IF g_data.tournament_points_disabled
  THEN tour
  ELSE
    LET white == g_data.white
        black == g_data.black
        t1 == [tour EXCEPT
                 !.players[white].games_played =
                    IF white \in tour.roster THEN @ + 1 ELSE @,
                 !.players[black].games_played =
                    IF black \in tour.roster THEN @ + 1 ELSE @]
        Win(t, w, l, wcolor) ==
          LET new_streak == t.streaks[w] + 1
              t2 == IF w \in t.roster
                    THEN [t EXCEPT
                            !.streaks[w] = new_streak,
                            !.players[w].score =
                               @ + WinPoints(g_data.berserk[wcolor],
                                             new_streak)]
                    ELSE t
          IN IF l \in t.roster THEN [t2 EXCEPT !.streaks[l] = 0] ELSE t2
        Draw(t, u) ==
          IF u \in t.roster
          THEN [t EXCEPT
                  !.players[u].score =
                     @ + (IF t.streaks[u] >= 3 THEN 2 ELSE 1),
                  !.streaks[u] = 0]
          ELSE t
    IN IF winner = "white" THEN Win(t1, white, black, "white")
       ELSE IF winner = "black" THEN Win(t1, black, white, "black")
       ELSE Draw(Draw(t1, white), black)

\* requeue_tournament_players: players_in_game_menu after the call
requeue_tournament_players(menu, tour, g_data) ==
  IF g_data.tournament_id = "none" THEN menu
  ELSE IF ~ tour.exists \/ tour.status # "active" THEN menu
  ELSE menu \cup ({g_data.white, g_data.black} \cap tour.roster)

---------------------------------------------------------------------------
(* Match session: games[room_id] with its board, clock and collaborators  *)

\* what the last operation was and what it reported: the request
\* (from_pos, to_pos, remove_pos), the side to move (mover) and the phase
\* before it, the board after the piece was placed or moved and before a
\* capture (mid; the board before the call when nothing was placed or
\* moved), and the handler's results.  The fields an operation does not
\* set keep these values
NoLast ==
  [op |-> "init", outcome |-> "none", color |-> "none", mover |-> "none",
   from_pos |-> NoPos, to_pos |-> NoPos, remove_pos |-> NoPos,
   mill |-> FALSE, awaiting |-> FALSE, removed |-> FALSE, mid |-> NewBoardGame.board, result |-> "none",
   increment_applied |-> FALSE, phase |-> 0,
   username |-> "none", time_control |-> "none"]

\* signup: the record of a new user
NewUser ==
  [rating |-> [bullet |-> 100, blitz |-> 100],
   games_played |-> [bullet |-> 0, blitz |-> 0],
   wins |-> [bullet |-> 0, blitz |-> 0],
   losses |-> [bullet |-> 0, blitz |-> 0],
   draws |-> [bullet |-> 0, blitz |-> 0]]

\* the tournament the match belongs to (exists = FALSE: a casual match)
NewTournament(exists) ==
  [exists |-> exists, status |-> "active", roster |-> Usernames,
   players |-> [u \in Usernames |-> [score |-> 0, games_played |-> 0]],
   streaks |-> [u \in Usernames |-> 0]]

\* the games[room_id] record built by on_seek_game (tournament_id "none")
\* and by create_tournament_game, after start_game_timer; watcher says the
\* check_first_move_loop thread of a tournament game is alive
NewGameData(time_control, tournament_id, t0) ==
  [white |-> WhiteUser, black |-> BlackUser,
   status |-> "waiting_first_move",
   winner |-> "none", end_reason |-> "none",
   waiting_for_removal |-> FALSE,
   white_first_move_made |-> FALSE, black_first_move_made |-> FALSE,
   waiting_for_first_move |-> "white",
   first_move_deadline |-> t0 + Seconds(20),
   timer_started |-> FALSE,
   berserk |-> [white |-> FALSE, black |-> FALSE],
   tournament_id |-> tournament_id,
   time_control |-> time_control,
   game_type |-> "ranked",
   tournament_points_disabled |-> FALSE,
   watcher |-> tournament_id # "none"]

\* the state right after a pair was formed at time t0
NewWorld(time_control, tournament_id, t0) ==
  [game |-> NewBoardGame,
   gd |-> NewGameData(time_control, tournament_id, t0),
   timer |-> NewTimer(parse_time_control(time_control)[1],
                      parse_time_control(time_control)[2], t0),
   users |-> [u \in Usernames |-> NewUser],
   tournaments |-> NewTournament(tournament_id # "none"),
   players_in_game_menu |-> {},
   now |-> t0]

World ==
  [game |-> game, gd |-> gd, timer |-> timer, users |-> users,
   tournaments |-> tournaments,
   players_in_game_menu |-> players_in_game_menu, now |-> now]

PlayerColor(g_data, username) ==
  IF username = g_data.white THEN "white" ELSE "black"

\* stop_game_timer (the world W is evaluated once, as w)
stop_game_timer(W) ==
  CHOOSE stopped \in
    { IF w.timer.registered
      THEN [w EXCEPT !.timer = [pause(w.timer, w.now) EXCEPT
                                  !.state = TIMER_EXPIRED,
                                  !.registered = FALSE]]
      ELSE w : w \in {W} } : TRUE

\* switch_player_timer: [W, increment_applied]
switch_player_timer(W, new_player) ==
  IF ~ W.timer.registered
  THEN [W |-> W, increment_applied |-> FALSE]
  ELSE LET t1 == get_current_times(W.timer, W.now)
           sw == switch_player(t1, new_player, W.now)
           t3 == get_current_times(sw.t, W.now)
       IN [W |-> [W EXCEPT !.timer = t3],
           increment_applied |-> sw.increment_applied]


\* update_ratings(game_data, winner) on the world
Rate(W, winner) ==
  CHOOSE rated \in
    { [w EXCEPT !.users = update_ratings(w.users, w.gd, winner)]
        : w \in {W} } : TRUE

\* update_tournament_scores(game_data, winner) on the world
Score(W, winner) ==
  CHOOSE scored \in
    { [w EXCEPT !.tournaments =
          update_tournament_scores(w.tournaments, w.gd, winner)]
        : w \in {W} } : TRUE

\* requeue_tournament_players(game_data) on the world
Requeue(W) ==
  CHOOSE requeued \in
    { [w EXCEPT !.players_in_game_menu =
          requeue_tournament_players(w.players_in_game_menu, w.tournaments,
                                     w.gd)]
        : w \in {W} } : TRUE

\* the block every terminating path of a player action runs: status,
\* winner, end reason, stop_game_timer, update_ratings,
\* update_tournament_scores, requeue_tournament_players
FinishByPlayer(W, winner, reason) ==
  Requeue(Score(Rate(stop_game_timer([W EXCEPT
                                        !.gd.status = "finished",
                                        !.gd.winner = winner,
                                        !.gd.end_reason = reason]),
                     winner),
                winner))

\* on_make_move, "Handle first move timer": runs before the move is
\* validated
FirstMovePart(W, player_color) ==
  LET resumed == IF W.timer.registered
                 THEN [resume(W.timer, W.now) EXCEPT !.state = TIMER_RUNNING]
                 ELSE W.timer
  IN
  IF W.gd.status = "waiting_first_move"
  THEN IF player_color = "white" /\ ~ W.gd.white_first_move_made
       THEN [W EXCEPT !.gd.white_first_move_made = TRUE,
                      !.gd.waiting_for_first_move = "black",
                      !.gd.first_move_deadline = W.now + Seconds(20)]
       ELSE IF player_color = "black" /\ ~ W.gd.black_first_move_made
       THEN [W EXCEPT !.gd.black_first_move_made = TRUE,
                      !.gd.waiting_for_first_move = "none",
                      !.gd.status = "playing",
                      !.gd.timer_started = TRUE,
                      !.timer = resumed]
       ELSE W
  ELSE IF ~ W.gd.timer_started
  THEN [W EXCEPT !.gd.timer_started = TRUE,
                 !.timer = resumed,
                 !.gd.status = "playing"]
  ELSE W


\* on_make_move, the capture call from "Add move to history" on: W2 is the
\* world after the piece was taken and the clock switched
CaptureLogged(W, W2, increment_applied, player_color, remove_pos, mover) ==
  LET winner == get_winner(W2.game)
  IN [W |-> IF winner # "none" THEN FinishByPlayer(W2, winner, "normal")
            ELSE W2,
      last |-> [NoLast EXCEPT
                  !.op = "make_move", !.outcome = "capture_accepted",
                  !.color = player_color, !.mover = mover,
                  !.remove_pos = remove_pos, !.removed = TRUE,
                  !.mid = W.game.board, !.result = winner,
                  !.phase = W.game.phase,
                  !.increment_applied = increment_applied]]

\* on_make_move, the capture call after switch_player_timer returned sw
CaptureSwitched(W, sw, player_color, remove_pos, mover) ==
  CaptureLogged(W,
                [sw.W EXCEPT !.game.moves =
                   Append(@, [from |-> NoPos, to |-> NoPos,
                              remove |-> remove_pos,
                              player |-> player_color, mill |-> FALSE])],
                sw.increment_applied, player_color, remove_pos, mover)

\* on_make_move, "Special handling for piece removal after mill"
RemovalPart(W, player_color, remove_pos, mover) ==
  IF can_remove(W.game, remove_pos)
  THEN CaptureSwitched(
         W,
         switch_player_timer(
            [W EXCEPT !.game.board[remove_pos] = "none",
                      !.game.current_player = Other(@),
                      !.gd.waiting_for_removal = FALSE],
            Other(W.game.current_player)),
         player_color, remove_pos, mover)
  ELSE [W |-> W,
        last |-> [NoLast EXCEPT
                    !.op = "make_move", !.outcome = "capture_rejected",
                    !.color = player_color, !.mover = mover,
                    !.remove_pos = remove_pos,
                    !.mid = W.game.board,
                    !.phase = W.game.phase]]

\* on_make_move, an accepted move from "winner = game.get_winner()" on:
\* sw is the world after the waiting_for_removal handling
MoveSwitched(W, result, sw, player_color, from_pos, to_pos, remove_pos, mover) ==
  LET winner == get_winner(sw.W.game)
  IN [W |-> IF winner # "none" THEN FinishByPlayer(sw.W, winner, "normal")
            ELSE sw.W,
      last |-> [NoLast EXCEPT
                  !.op = "make_move", !.outcome = "accepted",
                  !.color = player_color, !.mover = mover,
                  !.from_pos = from_pos, !.to_pos = to_pos,
                  !.remove_pos = remove_pos,
                  !.mill = result.mill_formed,
                  !.awaiting =
                     result.mill_formed /\ result.waiting_for_removal,
                  !.removed = result.piece_removed,
                  !.mid = result.mid.board, !.result = winner,
                  !.phase = W.game.phase,
                  !.increment_applied = sw.increment_applied]]

\* on_make_move, "Handle waiting_for_removal state": W1 is the world with
\* the move made and the clock read
WaitingForRemovalPart(W1, result, player_color) ==
  IF result.mill_formed /\ result.waiting_for_removal
  THEN [W |-> [W1 EXCEPT !.gd.waiting_for_removal = TRUE,
                         !.game.current_player = player_color],
        increment_applied |-> FALSE]
  ELSE switch_player_timer([W1 EXCEPT !.gd.waiting_for_removal = FALSE],
                           W1.game.current_player)

\* on_make_move, "Normal move handling" after make_move returned result
MoveMade(W, result, player_color, from_pos, to_pos, remove_pos, mover) ==
  IF ~ result.success
  THEN [W |-> [W EXCEPT !.game = result.g],
        last |-> [NoLast EXCEPT
                    !.op = "make_move", !.outcome = "rejected",
                    !.color = player_color, !.mover = mover,
                    !.from_pos = from_pos, !.to_pos = to_pos,
                    !.remove_pos = remove_pos,
                    !.mid = W.game.board,
                    !.phase = W.game.phase]]
  ELSE MoveSwitched(
         W, result,
         WaitingForRemovalPart(
            [W EXCEPT !.game = result.g,
                      !.timer = IF W.timer.registered
                                THEN get_current_times(W.timer, W.now)
                                ELSE @],
            result, player_color),
         player_color, from_pos, to_pos, remove_pos, mover)

\* on_make_move, "Normal move handling"
NormalMovePart(W, player_color, from_pos, to_pos, remove_pos, mover) ==
  MoveMade(W, make_move(W.game, from_pos, to_pos, remove_pos),
           player_color, from_pos, to_pos, remove_pos, mover)

\* on_make_move after "Handle first move timer": W1 is the world then
AfterFirstMovePart(W1, player_color, from_pos, to_pos, remove_pos, mover) ==
  IF W1.gd.waiting_for_removal /\ remove_pos # NoPos
  THEN RemovalPart(W1, player_color, remove_pos, mover)
  ELSE NormalMovePart(W1, player_color, from_pos, to_pos, remove_pos, mover)

\* on_make_move: [W, last]
on_make_move(W, username, from_pos, to_pos, remove_pos) ==
  IF W.gd.status \in {"canceled", "finished"}
  THEN [W |-> W,
        last |-> [NoLast EXCEPT !.op = "make_move", !.outcome = "closed"]]
  ELSE IF W.game.current_player # PlayerColor(W.gd, username)
          /\ ~ W.gd.waiting_for_removal
  THEN [W |-> W,
        last |-> [NoLast EXCEPT !.op = "make_move", !.outcome = "not_turn"]]
  ELSE AfterFirstMovePart(FirstMovePart(W, PlayerColor(W.gd, username)),
                          PlayerColor(W.gd, username),
                          from_pos, to_pos, remove_pos,
                          W.game.current_player)

\* on_resign: [W, last]
on_resign(W, username) ==
  IF W.gd.status = "finished" \/ W.gd.winner # "none"
  THEN [W |-> W,
        last |-> [NoLast EXCEPT !.op = "resign", !.outcome = "closed"]]
  ELSE [W |-> FinishByPlayer(W, Other(PlayerColor(W.gd, username)),
                             "resignation"),
        last |-> [NoLast EXCEPT !.op = "resign", !.outcome = "accepted",
                                !.color = PlayerColor(W.gd, username)]]

\* on_accept_draw: [W, last]
on_accept_draw(W, username) ==
  [W |-> FinishByPlayer(W, "draw", "agreement"),
   last |-> [NoLast EXCEPT !.op = "accept_draw", !.outcome = "accepted",
                           !.color = PlayerColor(W.gd, username)]]

\* on_berserk: [W, last]
on_berserk(W, username) ==
  LET player_color == PlayerColor(W.gd, username)
  IN
  IF Len(W.game.moves) > 2 \/ W.gd.berserk[player_color]
     \/ W.gd.tournament_id = "none"
  THEN [W |-> W,
        last |-> [NoLast EXCEPT !.op = "berserk", !.outcome = "rejected"]]
  ELSE
    LET halved == IF ~ W.timer.registered THEN W.timer
                  ELSE IF player_color = "white"
                  THEN [W.timer EXCEPT !.white_time = @ \div 2]
                  ELSE [W.timer EXCEPT !.black_time = @ \div 2]
    IN [W |-> [W EXCEPT !.gd.berserk[player_color] = TRUE,
                        !.timer = halved],
        last |-> [NoLast EXCEPT !.op = "berserk", !.outcome = "accepted",
                                !.color = player_color]]

\* get_timer_info (on_join_game, on_request_timer_sync): a read of the clock
get_timer_info(W) ==
  IF W.timer.registered
  THEN [W EXCEPT !.timer = get_current_times(W.timer, W.now)]
  ELSE W


\* timer_thread, "Clean up timer reference": the thread ends
ExitTimerThread(W) ==
  [W EXCEPT !.timer.thread = FALSE, !.timer.registered = FALSE]

\* what one iteration of timer_thread's loop reports
Polled(W, outcome, result) ==
  [W |-> W,
   last |-> [NoLast EXCEPT !.op = "timer_thread", !.outcome = outcome,
                           !.result = result]]

\* timer_thread once the clock was read (t1) and is_expired has read it
\* again (t2)
ExpiryCheck(W, t1, t2) ==
  IF t1.state = TIMER_RUNNING /\ ActiveTime(t2) <= 0 /\ t2.move_count > 0
  THEN Polled(ExitTimerThread(
                Score(Rate([W EXCEPT !.timer = t2,
                                     !.gd.status = "finished",
                                     !.gd.winner = Other(t2.active_player),
                                     !.gd.end_reason = "timeout"],
                           Other(t2.active_player)),
                      Other(t2.active_player))),
              "timeout", Other(t2.active_player))
  ELSE Polled([W EXCEPT !.timer = IF t1.state = TIMER_RUNNING
                                  THEN t2 ELSE t1],
              "continue", "none")

\* timer_thread with the clock read once
PollClock(W, t1) == ExpiryCheck(W, t1, get_current_times(t1, W.now))

\* an iteration of timer_thread's loop from "Check first move timeout" on,
\* after it has found the clock registered and the match open
PollOpenMatch(W) ==
  IF ~ W.gd.timer_started
  THEN IF W.gd.tournament_id = "none"
          /\ Max(0, W.gd.first_move_deadline - W.now) <= 0
       THEN Polled(ExitTimerThread(
                     Rate([W EXCEPT
                             !.gd.status = "finished",
                             !.gd.winner = Other(W.gd.waiting_for_first_move),
                             !.gd.end_reason = "first_move_timeout"],
                          Other(W.gd.waiting_for_first_move))),
                   "first_move_timeout", Other(W.gd.waiting_for_first_move))
       ELSE Polled(W, "continue", "none")
  ELSE PollClock(W, get_current_times(W.timer, W.now))

\* one iteration of timer_thread's loop; leaving the loop runs the
\* "Clean up timer reference" block
timer_thread(W) ==
  IF ~ W.timer.registered
  THEN Polled(ExitTimerThread(W), "stopped", "none")
  ELSE IF W.gd.status \in {"canceled", "finished"}
  THEN Polled(ExitTimerThread(W), "stopped", "none")
  ELSE PollOpenMatch(W)


\* handle_first_move_timeout, "if tournament_id: update_tournament_scores"
ScoreTournamentGame(W, winner) ==
  IF W.gd.tournament_id # "none" THEN Score(W, winner) ELSE W

\* handle_first_move_timeout
handle_first_move_timeout(W, timed_out_player) ==
  IF W.gd.status = "finished"
  THEN W
  ELSE Requeue(ScoreTournamentGame(
                 Rate(stop_game_timer([W EXCEPT
                                         !.gd.status = "finished",
                                         !.gd.winner = Other(timed_out_player)]),
                      Other(timed_out_player)),
                 Other(timed_out_player)))

\* one iteration of check_first_move_loop (tournament games)
check_first_move_loop(W) ==
  IF W.gd.status # "waiting_first_move"
  THEN [W |-> [W EXCEPT !.gd.watcher = FALSE],
        last |-> [NoLast EXCEPT !.op = "check_first_move_loop",
                                !.outcome = "stopped"]]
  ELSE IF W.now >= W.gd.first_move_deadline
  THEN [W |-> [handle_first_move_timeout(W, W.gd.waiting_for_first_move)
                 EXCEPT !.gd.watcher = FALSE],
        last |-> [NoLast EXCEPT !.op = "check_first_move_loop",
                                !.outcome = "first_move_timeout",
                                !.result =
                                   Other(W.gd.waiting_for_first_move)]]
  ELSE [W |-> W,
        last |-> [NoLast EXCEPT !.op = "check_first_move_loop",
                                !.outcome = "continue"]]

---------------------------------------------------------------------------
(* Matchmaker (casual): game_rooms holds the seeking rooms in the order   *)
(* in which they were created (the order of the dict), games the matches  *)
(* in the order in which they were made                                   *)

\* the registered users, in the order in which they join a tournament
PlayerNames == <<"alice", "bob", "carol", "dave">>
Players == {PlayerNames[i] : i \in 1..Len(PlayerNames)}

\* no seek, no match, no flag, no last-opponent record
LobbyIdle ==
  /\ game_rooms = << >>
  /\ games = << >>
  /\ banned_users = {}
  /\ paused_users = {}
  /\ tournament_recent_opponents = [u \in Players |-> "none"]
  /\ delayed_requeue = {}

\* games[game_id] as on_seek_game and create_tournament_game build it,
\* with the clock start_game_timer creates for it
NewMatch(white_player, black_player, time_control, tournament_id, t0) ==
  [gd |-> [NewGameData(time_control, tournament_id, t0) EXCEPT
             !.white = white_player, !.black = black_player],
   timer |-> NewTimer(parse_time_control(time_control)[1],
                      parse_time_control(time_control)[2], t0)]

\* the players of a match
MatchPlayers(m) == {m.gd.white, m.gd.black}

\* get_active_game_for_player returns a game
get_active_game_for_player(gs, username) ==
  \E i \in 1..Len(gs) :
     /\ username \in MatchPlayers(gs[i])
     /\ gs[i].gd.status \in {"playing", "waiting_first_move"}

\* is_player_in_game
is_player_in_game(gs, username) ==
  \E i \in 1..Len(gs) :
     /\ username \in MatchPlayers(gs[i])
     /\ gs[i].gd.status # "finished"

\* on_seek_game keeping the rooms of the caller
KeepingPlayer(rooms, username) == rooms

\* the rooms of a queue that do not hold username
WithoutPlayer(rooms, username) ==
  LET Keep(room) == \A k \in 1..Len(room.players) : room.players[k] # username
  IN SelectSeq(rooms, Keep)

\* the seeking rooms of a queue that do not hold username, and the others
WithoutSeekOf(rooms, username) ==
  LET Keep(room) ==
        ~ (room.seeking
           /\ \E k \in 1..Len(room.players) : room.players[k] = username)
  IN SelectSeq(rooms, Keep)

\* a queue without its i-th room
WithoutRoom(rooms, i) ==
  SubSeq(rooms, 1, i - 1) \o SubSeq(rooms, i + 1, Len(rooms))

\* the match loop of on_seek_game without the test of the time control
MatchingRoomsOfAnyTimeControl(rooms, username, time_control) ==
  { i \in 1..Len(rooms) :
      /\ rooms[i].seeking
      /\ Len(rooms[i].players) = 1
      /\ rooms[i].players[1] # username }

\* on_seek_game, "Try to match with another player seeking the same time
\* control": the rooms the loop would accept
MatchingRooms(rooms, username, time_control) ==
  { i \in 1..Len(rooms) :
      /\ rooms[i].seeking
      /\ Len(rooms[i].players) = 1
      /\ rooms[i].time_control = time_control
      /\ rooms[i].players[1] # username }

\* the first room the loop over game_rooms accepts
FirstRoom(found) == CHOOSE i \in found : \A j \in found : i <= j

\* what an operation of the lobby reports
LobbyLast(op, outcome, username, time_control) ==
  [NoLast EXCEPT !.op = op, !.outcome = outcome, !.username = username,
                 !.time_control = time_control]

\* what on_seek_game reports; removed says that a room of the caller was
\* deleted ("Removed {username} from existing room")
SeekLast(rooms, outcome, username, time_control) ==
  [LobbyLast("seek_game", outcome, username, time_control) EXCEPT
     !.removed = Len(rooms) < Len(game_rooms)]


\* on_seek_game once the caller was admitted and taken out of its old
\* rooms (rooms is game_rooms then); caller_first is the outcome of
\* random.shuffle
SeekAdmitted(rooms, found, username, time_control, caller_first) ==
  IF found # {}
  THEN /\ games' = Append(games,
            IF caller_first
            THEN NewMatch(username, rooms[FirstRoom(found)].players[1],
                          time_control, "none", now)
            ELSE NewMatch(rooms[FirstRoom(found)].players[1], username,
                          time_control, "none", now))
       /\ game_rooms' = WithoutRoom(rooms, FirstRoom(found))
       /\ last' = SeekLast(rooms, "matched", username, time_control)
  ELSE /\ games' = games
       /\ game_rooms' = Append(rooms, [players |-> <<username>>,
                                       time_control |-> time_control,
                                       seeking |-> TRUE])
       /\ last' = SeekLast(rooms, "waiting", username, time_control)

\* on_seek_game
on_seek_game(username, time_control, caller_first) ==
  IF \/ username \in banned_users
     \/ username \in paused_users
     \/ get_active_game_for_player(games, username)
  THEN /\ UNCHANGED <<game_rooms, games>>
       /\ last' = LobbyLast("seek_game", "refused", username, time_control)
  ELSE SeekAdmitted(WithoutPlayer(game_rooms, username),
                    MatchingRooms(WithoutPlayer(game_rooms, username),
                                  username, time_control),
                    username, time_control, caller_first)

\* on_cancel_seek
on_cancel_seek(username) ==
  /\ game_rooms' = WithoutSeekOf(game_rooms, username)
  /\ games' = games
  /\ last' = LobbyLast("cancel_seek", "done", username, "none")

\* on_disconnect, "Clean up any seeking rooms for this user"
on_disconnect(username) ==
  /\ game_rooms' = WithoutSeekOf(game_rooms, username)
  /\ games' = games
  /\ last' = LobbyLast("disconnect", "done", username, "none")

---------------------------------------------------------------------------
(* Pairing engine (tournament): one active tournament "t1" which all      *)
(* Players have joined, in the order of PlayerNames.  An arena value A    *)
(* is [games, recent]: the registry of matches and the last-opponent      *)
(* records tournament_recent_opponents["t1"]                              *)

\* the tournament after on_join_tournament of every player; ratings gives
\* the rating each player had when it joined
NewArena(ratings) ==
  [exists |-> TRUE, status |-> "active", roster |-> Players,
   time_control |-> "1+0",
   players |-> [u \in Players |->
                  [score |-> 0, games_played |-> 0, rating |-> ratings[u]]],
   streaks |-> [u \in Players |-> 0]]

\* not paused, not in the after-game menu, not in a game
IsAvailable(gs, paused, menu, u) ==
  u \notin paused /\ u \notin menu /\ ~ is_player_in_game(gs, u)

\* the index of u in the order of joining
JoinIndex(u) == CHOOSE i \in 1..Len(PlayerNames) : PlayerNames[i] = u

\* list.sort (stable) of a set of players that are listed in the order of
\* joining: <<a, b>> \in before says that the sort key puts a strictly
\* before b
StableSort(pool, before) ==
  LET Ahead(u) == { v \in pool : \/ <<v, u>> \in before
                                 \/ /\ <<u, v>> \notin before
                                    /\ JoinIndex(v) < JoinIndex(u) }
  IN [k \in 1..Cardinality(pool) |->
        CHOOSE u \in pool : Cardinality(Ahead(u)) = k - 1]

\* the pairing procedures testing one direction of the records only
MayPairOneWay(recent, player, candidate) ==
  candidate # recent[player]

\* lichess_style_pairing and match_tournament_players, "NEVER pair with
\* the last opponent" and "Also check if this player was the candidate's
\* last opponent"
MayPair(recent, player, candidate) ==
  /\ candidate # recent[player]
  /\ player # recent[candidate]

\* lichess_style_pairing, the loop "for i, player in enumerate(
\* available_players)" from index i on: the list of pairings
RECURSIVE PairingLoop(_, _, _, _)
PairingLoop(order, recent, i, paired) ==
  IF i > Len(order) THEN << >>
  ELSE IF order[i] \in paired
  THEN PairingLoop(order, recent, i + 1, paired)
  ELSE IF \E j \in (i + 1)..Len(order) :
             order[j] \notin paired /\ MayPair(recent, order[i], order[j])
  THEN << <<order[i],
            order[CHOOSE j \in (i + 1)..Len(order) :
                    /\ order[j] \notin paired
                    /\ MayPair(recent, order[i], order[j])
                    /\ \A h \in (i + 1)..(j - 1) :
                          ~ (order[h] \notin paired
                             /\ MayPair(recent, order[i], order[h]))]>> >>
       \o PairingLoop(order, recent, i + 1,
            paired \cup {order[i],
               order[CHOOSE j \in (i + 1)..Len(order) :
                    /\ order[j] \notin paired
                    /\ MayPair(recent, order[i], order[j])
                    /\ \A h \in (i + 1)..(j - 1) :
                          ~ (order[h] \notin paired
                             /\ MayPair(recent, order[i], order[h]))]})
  ELSE PairingLoop(order, recent, i + 1, paired)

\* lichess_style_pairing walking the available players in the order of
\* joining
lichess_style_pairing_unsorted(tour, A, paused, menu) ==
  LET pool == { u \in tour.roster : IsAvailable(A.games, paused, menu, u) }
  IN PairingLoop(StableSort(pool, {}), A.recent, 1, {})

\* lichess_style_pairing
lichess_style_pairing(tour, A, paused, menu) ==
  LET pool == { u \in tour.roster : IsAvailable(A.games, paused, menu, u) }
      before ==
        { p \in pool \X pool :
            \/ tour.players[p[1]].score > tour.players[p[2]].score
            \/ /\ tour.players[p[1]].score = tour.players[p[2]].score
               /\ tour.players[p[1]].rating > tour.players[p[2]].rating }
  IN PairingLoop(StableSort(pool, before), A.recent, 1, {})

\* create_tournament_game with set_last_opponent; player1_first is the
\* outcome of random.shuffle
create_tournament_game(tour, A, player1, player2, player1_first) ==
  [games |-> Append(A.games,
        IF player1_first
        THEN NewMatch(player1, player2, tour.time_control, "t1", now)
        ELSE NewMatch(player2, player1, tour.time_control, "t1", now)),
   recent |-> [A.recent EXCEPT ![player1] = player2, ![player2] = player1]]

\* run_tournament_pairing_round, the loop "for player1, player2 in
\* pairings" from pairing k on
RECURSIVE CreatePairings(_, _, _, _, _, _, _)
CreatePairings(tour, A, paused, menu, pairings, k, player1_first) ==
  IF k > Len(pairings) THEN A
  ELSE IF /\ IsAvailable(A.games, paused, menu, pairings[k][1])
          /\ IsAvailable(A.games, paused, menu, pairings[k][2])
  THEN CreatePairings(tour,
         create_tournament_game(tour, A, pairings[k][1], pairings[k][2],
                                player1_first),
         paused, menu, pairings, k + 1, player1_first)
  ELSE CreatePairings(tour, A, paused, menu, pairings, k + 1, player1_first)

\* run_tournament_pairing_round once the players stuck in the after-game
\* menu were removed from it (menu is players_in_game_menu then)
run_tournament_pairing_round(tour, A, paused, menu, player1_first) ==
  IF tour.status # "active" THEN A
  ELSE CreatePairings(tour, A, paused, menu,
                      lichess_style_pairing(tour, A, paused, menu),
                      1, player1_first)

\* match_tournament_players, "Find best opponent" over the sorted
\* opponents from index j on
RECURSIVE BestOpponent(_, _, _, _)
BestOpponent(opponents, recent, username, j) ==
  IF j > Len(opponents) THEN "none"
  ELSE IF MayPair(recent, username, opponents[j]) THEN opponents[j]
  ELSE BestOpponent(opponents, recent, username, j + 1)

\* match_tournament_players with the best opponent found
MatchWith(tour, A, username, best_opponent, player1_first) ==
  IF best_opponent = "none" THEN A
  ELSE create_tournament_game(tour, A, username, best_opponent,
                              player1_first)

\* match_tournament_players
match_tournament_players(tour, A, paused, menu, username, player1_first) ==
  IF tour.status # "active" \/ ~ IsAvailable(A.games, paused, menu, username)
  THEN A
  ELSE
    LET opponents == { u \in tour.roster \ {username} :
                         IsAvailable(A.games, paused, menu, u) }
        Gap(u) == Abs(tour.players[u].score - tour.players[username].score)
        closer == { p \in opponents \X opponents : Gap(p[1]) < Gap(p[2]) }
    IN MatchWith(tour, A, username,
                 BestOpponent(StableSort(opponents, closer), A.recent,
                              username, 1),
                 player1_first)

---------------------------------------------------------------------------
(* The tournament calendar: create_scheduled_tournaments and               *)
(* start_scheduled_tournaments.  Here tournaments is the whole dictionary: *)
(* all is the set of its entries, each with the id it was created with,    *)
(* and next_id stands for the next uuid.  Time 0 is a Monday, 00:00.  The  *)
(* monthly, marathon and world cup arenas, whose next start lies beyond    *)
(* the hours explored, are left out                                         *)

Minutes(m) == Seconds(60 * m)
Hours(h) == Minutes(60 * h)

\* TOURNAMENT_TYPES[...]['duration'], in minutes
Duration(tournament_type) ==
  IF tournament_type = "daily" THEN 60 ELSE 180

\* the time controls random.choice draws from
TIME_CONTROLS == {"1+0", "3+2", "5+0"}

NoTournaments == [next_id |-> 1, all |-> {}]

\* tournaments[tournament_id] = {...}
AddTournament(ts, tournament_type, time_control, start_time, end_time, status) ==
  [next_id |-> ts.next_id + 1,
   all |-> ts.all \cup
             {[id |-> ts.next_id, tournament_type |-> tournament_type,
               time_control |-> time_control, start_time |-> start_time,
               end_time |-> end_time, status |-> status,
               finished_time |-> 0]}]

\* "Always ensure there's at least one active tournament running"
EnsureActive(ts, current_time, time_control) ==
  IF \E t \in ts.all : t.status = "active" THEN ts
  ELSE AddTournament(ts, "daily", time_control,
                     current_time - Minutes(5),
                     current_time - Minutes(5) + Minutes(60), "active")

\* the tolerance of the existence test counting every tournament of the
\* type as existing
NearAnyTime(start_time, other_start_time) == TRUE

\* abs((... - start_time).total_seconds()) < 300
Near(start_time, other_start_time) ==
  Abs(other_start_time - start_time) < Seconds(300)

\* create_tournament_if_not_exists
create_tournament_if_not_exists(ts, tournament_type, start_time, time_control) ==
  IF \E t \in ts.all : /\ t.tournament_type = tournament_type
                       /\ Near(start_time, t.start_time)
  THEN ts
  ELSE AddTournament(ts, tournament_type, time_control, start_time,
                     start_time + Minutes(Duration(tournament_type)),
                     "scheduled")

\* create_tournament_if_not_exists_with_tc
create_tournament_if_not_exists_with_tc(ts, tournament_type, start_time, time_control) ==
  IF \E t \in ts.all : /\ t.tournament_type = tournament_type
                       /\ t.time_control = time_control
                       /\ Near(start_time, t.start_time)
  THEN ts
  ELSE AddTournament(ts, tournament_type, time_control, start_time,
                     start_time + Minutes(Duration(tournament_type)),
                     "scheduled")

\* current_time.replace(hour=0, minute=0, second=0)
DayStart(current_time) == current_time - (current_time % Hours(24))

\* the daily arenas of the hours of today up to MaxHoursAhead hours from
\* now, "every hour at 3 minutes past the hour", from hour h on;
\* time_control is what random.choice draws (one draw stands for the draws
\* of one pass: nothing reads the time control of a daily arena)
RECURSIVE DailyArenas(_, _, _, _)
DailyArenas(ts, current_time, time_control, h) ==
  IF h > (current_time - DayStart(current_time)) \div Hours(1) + MaxHoursAhead
  THEN ts
  ELSE LET start_time == DayStart(current_time) + Hours(h) + Minutes(3)
       IN DailyArenas(IF start_time > current_time
                      THEN create_tournament_if_not_exists(
                             ts, "daily", start_time, time_control)
                      ELSE ts,
                      current_time, time_control, h + 1)

\* weekly_schedule: <<weekday, hour, time_control>>
weekly_schedule == <<<<0, 18, "1+0">>, <<2, 19, "3+2">>, <<4, 20, "5+0">>>>

\* the weekly arenas of the days from today to MaxDaysAhead days from now:
\* day days_ahead from entry k of weekly_schedule on
RECURSIVE WeeklyArenas(_, _, _, _)
WeeklyArenas(ts, current_time, days_ahead, k) ==
  IF days_ahead > MaxDaysAhead THEN ts
  ELSE IF k > Len(weekly_schedule)
  THEN WeeklyArenas(ts, current_time, days_ahead + 1, 1)
  ELSE LET future_day == DayStart(current_time) + Hours(24 * days_ahead)
           start_time == future_day + Hours(weekly_schedule[k][2])
       IN WeeklyArenas(
            IF (future_day \div Hours(24)) % 7 = weekly_schedule[k][1]
               /\ start_time > current_time
            THEN create_tournament_if_not_exists_with_tc(
                   ts, "weekly", start_time, weekly_schedule[k][3])
            ELSE ts,
            current_time, days_ahead, k + 1)

\* create_scheduled_tournaments
create_scheduled_tournaments(ts, current_time, time_control) ==
  WeeklyArenas(DailyArenas(EnsureActive(ts, current_time, time_control),
                           current_time, time_control, 0),
               current_time, 0, 1)

\* start_scheduled_tournaments, the loop body for one tournament
Advanced(t, current_time) ==
  IF t.status = "scheduled"
  THEN IF current_time >= t.start_time THEN [t EXCEPT !.status = "active"]
       ELSE t
  ELSE IF t.status = "active"
  THEN IF current_time >= t.end_time
       THEN [t EXCEPT !.status = "finished", !.finished_time = current_time]
       ELSE t
  ELSE t

\* a finished tournament removed by the next pass, whatever the time
PurgedAtOnce(t, current_time) == t.status = "finished"

\* start_scheduled_tournaments, "Check if tournament has been finished for
\* 5 minutes"
Purged(t, current_time) ==
  /\ t.status = "finished"
  /\ current_time >= t.finished_time + Minutes(5)

\* start_scheduled_tournaments
start_scheduled_tournaments(ts, current_time) ==
  [ts EXCEPT !.all = { Advanced(t, current_time) :
                         t \in { u \in ts.all : ~ Purged(u, current_time) } }]

\* on_join_tournament, "If tournament is scheduled but start time has
\* passed, activate it now"
ActivatedOnJoin(ts, id, current_time) ==
  [ts EXCEPT !.all =
     { IF t.id = id /\ t.status = "scheduled" /\ current_time >= t.start_time
       THEN [t EXCEPT !.status = "active"] ELSE t : t \in ts.all }]

---------------------------------------------------------------------------
(* Recorded games: each script is a sequence of make_move requests       *)
(* <<username, from_pos, to_pos, remove_pos>> that on_make_move accepts  *)
(* one after the other from a new match.  A behaviour first replays a    *)
(* script request by request (variable script holds what is left of it), *)
(* then explores every request of the bounded client sets                *)

\* white holds 0 and 1, black 3 and 4; white to place
TwoInRowScript ==
  <<<<WhiteUser, NoPos, 0, NoPos>>, <<BlackUser, NoPos, 3, NoPos>>,
     <<WhiteUser, NoPos, 1, NoPos>>, <<BlackUser, NoPos, 4, NoPos>> >>

\* black closed the mill 3-4-5 and took the piece on 9; white to place
BlackMillScript ==
  <<<<WhiteUser, NoPos, 0, NoPos>>, <<BlackUser, NoPos, 3, NoPos>>,
     <<WhiteUser, NoPos, 1, NoPos>>, <<BlackUser, NoPos, 4, NoPos>>,
     <<WhiteUser, NoPos, 9, NoPos>>, <<BlackUser, NoPos, 5, 9>> >>

\* 16 pieces placed without a mill; white to place its 9th
LatePlacingScript ==
  <<<<WhiteUser, NoPos, 0, NoPos>>, <<BlackUser, NoPos, 3, NoPos>>,
     <<WhiteUser, NoPos, 1, NoPos>>, <<BlackUser, NoPos, 7, NoPos>>,
     <<WhiteUser, NoPos, 6, NoPos>>, <<BlackUser, NoPos, 9, NoPos>>,
     <<WhiteUser, NoPos, 8, NoPos>>, <<BlackUser, NoPos, 11, NoPos>>,
     <<WhiteUser, NoPos, 10, NoPos>>, <<BlackUser, NoPos, 12, NoPos>>,
     <<WhiteUser, NoPos, 13, NoPos>>, <<BlackUser, NoPos, 14, NoPos>>,
     <<WhiteUser, NoPos, 16, NoPos>>, <<BlackUser, NoPos, 18, NoPos>>,
     <<WhiteUser, NoPos, 21, NoPos>>, <<BlackUser, NoPos, 22, NoPos>> >>

\* ... and white closed the mill 0-1-2 without naming a capture: the match
\* waits for white's capture with one white piece left to place
MillWhilePlacingScript ==
  LatePlacingScript \o << <<WhiteUser, NoPos, 2, NoPos>> >>

\* a game played into the flying phase: black is down to 3 pieces
FlyingScript ==
  <<<<WhiteUser, NoPos, 3, NoPos>>, <<BlackUser, NoPos, 9, NoPos>>,
     <<WhiteUser, NoPos, 10, NoPos>>, <<BlackUser, NoPos, 16, NoPos>>,
     <<WhiteUser, NoPos, 18, NoPos>>, <<WhiteUser, NoPos, NoPos, 9>>,
     <<BlackUser, NoPos, 15, NoPos>>, <<WhiteUser, NoPos, 13, NoPos>>,
     <<BlackUser, NoPos, 23, NoPos>>, <<WhiteUser, NoPos, 4, NoPos>>,
     <<BlackUser, NoPos, 8, NoPos>>, <<WhiteUser, NoPos, 11, NoPos>>,
     <<BlackUser, NoPos, 14, NoPos>>, <<WhiteUser, NoPos, 1, NoPos>>,
     <<BlackUser, NoPos, 5, NoPos>>, <<WhiteUser, NoPos, 7, NoPos>>,
     <<WhiteUser, NoPos, NoPos, 14>>, <<BlackUser, NoPos, 0, NoPos>>,
     <<WhiteUser, NoPos, 20, NoPos>>, <<BlackUser, NoPos, 14, NoPos>>,
     <<WhiteUser, 1, 2, NoPos>>, <<BlackUser, 23, 22, NoPos>>,
     <<WhiteUser, 2, 1, NoPos>>, <<WhiteUser, NoPos, NoPos, 5>>,
     <<BlackUser, 14, 23, NoPos>>, <<WhiteUser, 4, 5, NoPos>>,
     <<WhiteUser, NoPos, NoPos, 22>>, <<BlackUser, 23, 22, NoPos>>,
     <<WhiteUser, 3, 4, NoPos>>, <<WhiteUser, NoPos, NoPos, 0>>,
     <<BlackUser, 22, 19, NoPos>>, <<WhiteUser, 4, 3, NoPos>>,
     <<WhiteUser, NoPos, NoPos, 15>>, <<BlackUser, 8, 2, NoPos>> >>

\* a game played into the moving phase: black is down to 4 pieces
FourPiecesScript ==
  <<<<WhiteUser, NoPos, 13, NoPos>>, <<BlackUser, NoPos, 11, NoPos>>,
     <<WhiteUser, NoPos, 23, NoPos>>, <<BlackUser, NoPos, 1, NoPos>>,
     <<WhiteUser, NoPos, 9, NoPos>>, <<BlackUser, NoPos, 12, NoPos>>,
     <<WhiteUser, NoPos, 20, NoPos>>, <<BlackUser, NoPos, 4, NoPos>>,
     <<WhiteUser, NoPos, 16, NoPos>>, <<BlackUser, NoPos, 22, NoPos>>,
     <<WhiteUser, NoPos, 7, NoPos>>, <<BlackUser, NoPos, 21, NoPos>>,
     <<WhiteUser, NoPos, 5, NoPos>>, <<WhiteUser, NoPos, NoPos, 1>>,
     <<BlackUser, NoPos, 10, NoPos>>, <<WhiteUser, NoPos, 14, NoPos>>,
     <<BlackUser, NoPos, 0, NoPos>>, <<WhiteUser, NoPos, 2, NoPos>>,
     <<WhiteUser, NoPos, NoPos, 22>>, <<BlackUser, NoPos, 15, NoPos>>,
     <<WhiteUser, 23, 22, NoPos>>, <<BlackUser, 4, 3, NoPos>>,
     <<WhiteUser, 20, 19, NoPos>>, <<WhiteUser, NoPos, NoPos, 21>>,
     <<BlackUser, 11, 6, NoPos>>, <<WhiteUser, 22, 21, NoPos>>,
     <<BlackUser, 12, 17, NoPos>>, <<WhiteUser, 2, 1, NoPos>>,
     <<BlackUser, 6, 11, NoPos>>, <<WhiteUser, 19, 20, NoPos>>,
     <<WhiteUser, NoPos, NoPos, 3>>, <<BlackUser, 10, 3, NoPos>>,
     <<WhiteUser, 20, 19, NoPos>>, <<BlackUser, 11, 10, NoPos>>,
     <<WhiteUser, 5, 4, NoPos>>, <<WhiteUser, NoPos, NoPos, 17>>,
     <<BlackUser, 15, 11, NoPos>>, <<WhiteUser, 19, 20, NoPos>>,
     <<BlackUser, 11, 15, NoPos>> >>

\* ... and white closed the mill 5-13-20 taking the piece on 0 in the same
\* call: black is down to 3 pieces while the phase is still 2
ThreeWhileMovingScript ==
  FourPiecesScript \o << <<WhiteUser, 4, 5, 0>> >>

\* white closes 3-4-5 and takes the piece on 0 in a call of its own,
\* then both sides place their remaining pieces without a mill
QuietOpeningScript ==
  <<<<WhiteUser, NoPos, 3, NoPos>>, <<BlackUser, NoPos, 0, NoPos>>,
     <<WhiteUser, NoPos, 4, NoPos>>, <<BlackUser, NoPos, 1, NoPos>>,
     <<WhiteUser, NoPos, 5, NoPos>>, <<WhiteUser, NoPos, NoPos, 0>>,
     <<BlackUser, NoPos, 18, NoPos>>, <<WhiteUser, NoPos, 11, NoPos>>,
     <<BlackUser, NoPos, 20, NoPos>>, <<WhiteUser, NoPos, 22, NoPos>>,
     <<BlackUser, NoPos, 17, NoPos>>, <<WhiteUser, NoPos, 21, NoPos>>,
     <<BlackUser, NoPos, 13, NoPos>>, <<WhiteUser, NoPos, 7, NoPos>>,
     <<BlackUser, NoPos, 12, NoPos>>, <<WhiteUser, NoPos, 8, NoPos>>,
     <<BlackUser, NoPos, 23, NoPos>>, <<WhiteUser, NoPos, 16, NoPos>>,
     <<BlackUser, NoPos, 6, NoPos>> >>

\* ... followed by 35 moves that close no mill: white shuttles 11-10,
\* black 1-2.  The log then holds the capture and 48 quiet entries after it
QuietScript ==
  QuietOpeningScript \o
  [i \in 1..35 |->
     IF i % 4 = 1 THEN <<WhiteUser, 11, 10, NoPos>>
     ELSE IF i % 4 = 2 THEN <<BlackUser, 1, 2, NoPos>>
     ELSE IF i % 4 = 3 THEN <<WhiteUser, 10, 11, NoPos>>
     ELSE <<BlackUser, 2, 1, NoPos>>]

Scripts ==
  { << >>, TwoInRowScript, BlackMillScript, LatePlacingScript,
    MillWhilePlacingScript, FlyingScript, FourPiecesScript,
    ThreeWhileMovingScript, QuietScript }

---------------------------------------------------------------------------
(* Actions *)

SetWorld(W) ==
  /\ game' = W.game
  /\ gd' = W.gd
  /\ timer' = W.timer
  /\ users' = W.users
  /\ tournaments' = W.tournaments
  /\ players_in_game_menu' = W.players_in_game_menu
  /\ now' = W.now

Apply(r) ==
  /\ SetWorld(r.W)
  /\ last' = r.last
  /\ steps' = steps + 1
  /\ UNCHANGED <<script, owed>>
  /\ UNCHANGED lobby


\* a step of the recorded game: it does not count as an explored request
Replay(r) ==
  /\ SetWorld(r.W)
  /\ last' = r.last
  /\ steps' = steps
  /\ script' = Tail(script)
  /\ owed' = owed
  /\ UNCHANGED lobby

\* the next request of the recorded game
ReplayMove ==
  /\ script # << >>
  /\ Replay(on_make_move(World, Head(script)[1], Head(script)[2],
                         Head(script)[3], Head(script)[4]))

ClientPositions == 0..MaxPos
SessionPositions == 0..MaxSessionPos

\* a make_move event naming positions of ClientPositions
MakeMove ==
  /\ script = << >>
  /\ steps < MaxSteps
  /\ \E username \in Usernames, from_pos \in ClientPositions \cup {NoPos},
        to_pos \in ClientPositions, remove_pos \in ClientPositions \cup {NoPos} :
        Apply(on_make_move(World, username, from_pos, to_pos, remove_pos))

IsWorld(W) ==
  /\ game = W.game
  /\ gd = W.gd
  /\ timer = W.timer
  /\ users = W.users
  /\ tournaments = W.tournaments
  /\ players_in_game_menu = W.players_in_game_menu
  /\ now = W.now

InitBoard ==
  /\ IsWorld(NewWorld("3+0", "none", 0))
  /\ script \in Scripts
  /\ last = NoLast
  /\ steps = 0
  /\ owed = 0
  /\ LobbyIdle

NextBoard == ReplayMove \/ MakeMove

SpecBoard == InitBoard /\ [][NextBoard]_vars


---------------------------------------------------------------------------
(* The match session with its clock, threads and wall time *)

\* wall time advances in steps of TickSeconds
TickSeconds == {20}

\* a make_move event of the placing phase (from_pos absent)
SessionMove ==
  /\ steps < MaxSessionSteps
  /\ \E username \in Usernames, to_pos \in SessionPositions,
        remove_pos \in SessionPositions \cup {NoPos} :
        Apply(on_make_move(World, username, NoPos, to_pos, remove_pos))

Resign ==
  /\ steps < MaxSessionSteps
  /\ \E username \in Usernames : Apply(on_resign(World, username))

AcceptDraw ==
  /\ steps < MaxSessionSteps
  /\ \E username \in Usernames : Apply(on_accept_draw(World, username))

Berserk ==
  /\ steps < MaxSessionSteps
  /\ \E username \in Usernames : Apply(on_berserk(World, username))

GetTimerInfo ==
  /\ steps < MaxSessionSteps
  /\ Apply([W |-> get_timer_info(World),
            last |-> [NoLast EXCEPT !.op = "get_timer_info"]])

TimerThread ==
  /\ steps < MaxSessionSteps
  /\ timer.thread
  /\ Apply(timer_thread(World))

CheckFirstMoveLoop ==
  /\ steps < MaxSessionSteps
  /\ gd.watcher
  /\ Apply(check_first_move_loop(World))

\* time.time() moves on
Tick ==
  /\ \E d \in TickSeconds :
        /\ now + Seconds(d) <= Seconds(MaxNowSeconds)
        /\ now' = now + Seconds(d)
  /\ last' = [NoLast EXCEPT !.op = "tick"]
  /\ UNCHANGED <<game, gd, timer, users, tournaments, players_in_game_menu,
                 steps, script, owed>>
  /\ UNCHANGED lobby

TimeControls == {"1+0", "1+1"}

Init ==
  /\ \E time_control \in TimeControls, tournament_id \in {"none", "t1"} :
        IsWorld(NewWorld(time_control, tournament_id, 0))
  /\ script = << >>
  /\ last = NoLast
  /\ steps = 0
  /\ owed = 0
  /\ LobbyIdle

Next ==
  \/ SessionMove
  \/ Resign
  \/ AcceptDraw
  \/ Berserk
  \/ GetTimerInfo
  \/ TimerThread
  \/ CheckFirstMoveLoop
  \/ Tick

Spec == Init /\ [][Next]_vars

---------------------------------------------------------------------------
(* The match session with its poller threads running for as long as they  *)
(* live: timer_thread wakes every 0.1 s and check_first_move_loop every   *)
(* 0.5 s, so an iteration of a live thread is always taken eventually.    *)
(* Only the requests of the players count as explored steps               *)

\* an iteration of a thread's loop
Observe(r) ==
  /\ SetWorld(r.W)
  /\ last' = r.last
  /\ UNCHANGED <<steps, script, owed>>
  /\ UNCHANGED lobby

PollTimerThread ==
  /\ timer.thread
  /\ Observe(timer_thread(World))

PollFirstMoveLoop ==
  /\ gd.watcher
  /\ Observe(check_first_move_loop(World))

LiveMove ==
  /\ steps < MaxLiveSteps
  /\ \E username \in Usernames, to_pos \in SessionPositions :
        Apply(on_make_move(World, username, NoPos, to_pos, NoPos))

LiveResign ==
  /\ steps < MaxLiveSteps
  /\ \E username \in Usernames : Apply(on_resign(World, username))

NextLive ==
  \/ LiveMove
  \/ LiveResign
  \/ PollTimerThread
  \/ PollFirstMoveLoop
  \/ Tick

SpecLive ==
  /\ Init
  /\ [][NextLive]_vars
  /\ WF_vars(PollTimerThread)
  /\ WF_vars(PollFirstMoveLoop)

---------------------------------------------------------------------------
(* The clock alone: the methods of LichessStyleTimer called in any order.  *)
(* owed is the wall time that has passed while the clock was running since *)
(* the active side was last charged; it is kept by this specification only *)

\* a method call that leaves the clock as t; charged says that the call
\* charged the active side
ClockStep(t, op, charged) ==
  /\ timer' = t
  /\ owed' = IF charged THEN 0 ELSE owed
  /\ last' = [NoLast EXCEPT !.op = op]
  /\ UNCHANGED <<game, gd, users, tournaments, players_in_game_menu, now,
                 steps, script>>
  /\ UNCHANGED lobby

ClockGet ==
  ClockStep(get_current_times(timer, now), "get_current_times", TRUE)

ClockSwitch ==
  /\ timer.move_count < MaxClockSwitches
  /\ \E new_player \in Colors :
        ClockStep(switch_player(timer, new_player, now).t, "switch_player",
                  timer.state = TIMER_RUNNING)

ClockPause == ClockStep(pause(timer, now), "pause", timer.state = TIMER_RUNNING)

ClockResume == ClockStep(resume(timer, now), "resume", FALSE)

\* time.time() moves on
ClockTick ==
  /\ \E d \in TickSeconds :
        /\ now + Seconds(d) <= Seconds(MaxNowSeconds)
        /\ now' = now + Seconds(d)
        /\ owed' = IF timer.state = TIMER_RUNNING THEN owed + Seconds(d)
                   ELSE owed
  /\ last' = [NoLast EXCEPT !.op = "tick"]
  /\ UNCHANGED <<game, gd, timer, users, tournaments, players_in_game_menu,
                 steps, script>>
  /\ UNCHANGED lobby

InitClock ==
  /\ \E time_control \in TimeControls :
        IsWorld(NewWorld(time_control, "none", 0))
  /\ script = << >>
  /\ last = NoLast
  /\ steps = 0
  /\ owed = 0
  /\ LobbyIdle

NextClock ==
  \/ ClockGet
  \/ ClockSwitch
  \/ ClockPause
  \/ ClockResume
  \/ ClockTick

SpecClock == InitClock /\ [][NextClock]_vars

---------------------------------------------------------------------------
(* The matchmaker: seek_game, cancel_seek and disconnect events of three  *)
(* users in any order, an administrator banning users, users pausing and  *)
(* resuming, matches ending                                               *)

Seekers == {"alice", "bob", "carol"}

\* an event of the lobby was handled: the one match of the session
\* specifications is not touched
LobbyStep ==
  /\ steps' = steps + 1
  /\ UNCHANGED <<game, gd, timer, users, now, script, owed,
                 delayed_requeue>>

\* the matchmaker does not touch the tournament
SeekFrame ==
  /\ LobbyStep
  /\ UNCHANGED <<tournaments, players_in_game_menu,
                 tournament_recent_opponents>>

SeekGame ==
  /\ steps < MaxLobbySteps
  /\ \E username \in Seekers, time_control \in TimeControls,
        caller_first \in BOOLEAN :
        on_seek_game(username, time_control, caller_first)
  /\ UNCHANGED <<banned_users, paused_users>>
  /\ SeekFrame

CancelSeek ==
  /\ steps < MaxLobbySteps
  /\ \E username \in Seekers : on_cancel_seek(username)
  /\ UNCHANGED <<banned_users, paused_users>>
  /\ SeekFrame

Disconnect ==
  /\ steps < MaxLobbySteps
  /\ \E username \in Seekers : on_disconnect(username)
  /\ UNCHANGED <<banned_users, paused_users>>
  /\ SeekFrame

\* handle_admin_command, 'ban'
Ban ==
  /\ steps < MaxLobbySteps
  /\ \E target_user \in Seekers :
        /\ banned_users' = banned_users \cup {target_user}
        /\ last' = LobbyLast("ban", "done", target_user, "none")
  /\ UNCHANGED <<game_rooms, games, paused_users>>
  /\ SeekFrame

\* on_pause_tournament without a tournament: the user's pause flag flips
PauseToggle ==
  /\ steps < MaxLobbySteps
  /\ \E username \in Seekers :
        /\ paused_users' = IF username \in paused_users
                           THEN paused_users \ {username}
                           ELSE paused_users \cup {username}
        /\ last' = LobbyLast("pause_tournament", "done", username, "none")
  /\ UNCHANGED <<game_rooms, games, banned_users>>
  /\ SeekFrame

\* a match made by the matchmaker ends (on_resign by its white player)
ResignMatch ==
  /\ steps < MaxLobbySteps
  /\ \E i \in 1..Len(games) :
        /\ games[i].gd.status # "finished"
        /\ games' = [games EXCEPT ![i].gd.status = "finished",
                                  ![i].gd.winner = "black",
                                  ![i].gd.end_reason = "resignation"]
        /\ last' = LobbyLast("resign", "accepted", games[i].gd.white, "none")
  /\ UNCHANGED <<game_rooms, banned_users, paused_users>>
  /\ SeekFrame

InitSeek ==
  /\ IsWorld(NewWorld("1+0", "none", 0))
  /\ script = << >>
  /\ last = NoLast
  /\ steps = 0
  /\ owed = 0
  /\ LobbyIdle

NextSeek ==
  \/ SeekGame
  \/ CancelSeek
  \/ Disconnect
  \/ Ban
  \/ PauseToggle
  \/ ResignMatch

SpecSeek == InitSeek /\ [][NextSeek]_vars

---------------------------------------------------------------------------
(* The pairing engine: pairing rounds of the background thread, players   *)
(* asking to be paired, pausing and resuming, tournament matches ending   *)

Arena == [games |-> games, recent |-> tournament_recent_opponents]

\* an event of the tournament was handled and left the arena as A
ArenaStep(A, op, username) ==
  /\ games' = A.games
  /\ tournament_recent_opponents' = A.recent
  /\ last' = LobbyLast(op, IF Len(A.games) > Len(games) THEN "paired"
                           ELSE "none", username, "none")
  /\ UNCHANGED <<game_rooms, banned_users>>
  /\ LobbyStep

\* run_tournament_pairing_round, called by run_continuous_pairing every
\* 3 s; stuck are the players whose after-game menu is older than 15 s
PairingRound ==
  /\ steps < MaxArenaSteps
  /\ \E stuck \in SUBSET players_in_game_menu, player1_first \in BOOLEAN :
        /\ players_in_game_menu' = players_in_game_menu \ stuck
        /\ ArenaStep(run_tournament_pairing_round(
                        tournaments, Arena, paused_users,
                        players_in_game_menu \ stuck, player1_first),
                     "run_tournament_pairing_round", "none")
  /\ UNCHANGED <<tournaments, paused_users>>

\* on_request_pairing
RequestPairing ==
  /\ steps < MaxArenaSteps
  /\ \E username \in Players, player1_first \in BOOLEAN :
        /\ players_in_game_menu' = players_in_game_menu \ {username}
        /\ ArenaStep(match_tournament_players(
                        tournaments, Arena, paused_users,
                        players_in_game_menu \ {username}, username,
                        player1_first),
                     "request_pairing", username)
  /\ UNCHANGED <<tournaments, paused_users>>

\* on_pause_tournament: a paused player resumes and is matched, another
\* player pauses
PauseTournament ==
  /\ steps < MaxArenaSteps
  /\ \E username \in Players, player1_first \in BOOLEAN :
        IF username \in paused_users
        THEN /\ paused_users' = paused_users \ {username}
             /\ ArenaStep(match_tournament_players(
                             tournaments, Arena, paused_users \ {username},
                             players_in_game_menu, username, player1_first),
                          "pause_tournament", username)
        ELSE /\ paused_users' = paused_users \cup {username}
             /\ ArenaStep(Arena, "pause_tournament", username)
  /\ UNCHANGED <<tournaments, players_in_game_menu>>

\* a tournament match ends by resignation or by an accepted draw: status,
\* update_tournament_scores, requeue_tournament_players
EndTournamentMatch ==
  /\ steps < MaxArenaSteps
  /\ \E i \in 1..Len(games), winner \in {"white", "black", "draw"} :
        /\ games[i].gd.status # "finished"
        /\ tournaments' =
             update_tournament_scores(tournaments, games[i].gd, winner)
        /\ players_in_game_menu' =
             requeue_tournament_players(players_in_game_menu, tournaments,
                                        games[i].gd)
        /\ ArenaStep([Arena EXCEPT !.games[i].gd.status = "finished",
                                   !.games[i].gd.winner = winner],
                     "end_match", "none")
  /\ UNCHANGED paused_users

\* the ratings the players joined with
JoinRatings ==
  { [u \in Players |-> IF u \in {"bob", "carol"} THEN 120 ELSE 100] }

InitArena ==
  /\ \E ratings \in JoinRatings :
        IsWorld([NewWorld("1+0", "none", 0)
                   EXCEPT !.tournaments = NewArena(ratings)])
  /\ script = << >>
  /\ last = NoLast
  /\ steps = 0
  /\ owed = 0
  /\ LobbyIdle

NextArena ==
  \/ PairingRound
  \/ RequestPairing
  \/ PauseTournament
  \/ EndTournamentMatch

SpecArena == InitArena /\ [][NextArena]_vars

---------------------------------------------------------------------------
(* A series of tournament matches between the same two players: each      *)
(* match may be berserked, ends by resignation or by an accepted draw, and *)
(* is followed by the next pairing of the two                              *)

\* create_tournament_game: the next match of the two players
SeriesRematch ==
  /\ gd.status = "finished"
  /\ tournaments.players[WhiteUser].games_played <= MaxRematches
  /\ Observe([W |-> [NewWorld("1+0", "t1", now) EXCEPT
                        !.users = users,
                        !.tournaments = tournaments],
              last |-> [NoLast EXCEPT !.op = "create_tournament_game"]])

SeriesBerserk ==
  /\ gd.status # "finished"
  /\ \E username \in Usernames : Observe(on_berserk(World, username))

SeriesResign ==
  /\ gd.status # "finished"
  /\ \E username \in Usernames : Observe(on_resign(World, username))

SeriesAcceptDraw ==
  /\ gd.status # "finished"
  /\ \E username \in Usernames : Observe(on_accept_draw(World, username))

InitSeries ==
  /\ IsWorld(NewWorld("1+0", "t1", 0))
  /\ script = << >>
  /\ last = NoLast
  /\ steps = 0
  /\ owed = 0
  /\ LobbyIdle

NextSeries ==
  \/ SeriesRematch
  \/ SeriesBerserk
  \/ SeriesResign
  \/ SeriesAcceptDraw

SpecSeries == InitSeries /\ [][NextSeries]_vars

---------------------------------------------------------------------------
(* Rated casual matches between two players of any standing: a match ends  *)
(* by resignation or by an accepted draw and the two are matched again     *)

\* ratings a player can have come to: the floor and just above it, a new
\* player, both sides of the K-factor tiers and of a gap of 400
RatingSamples == {50, 60, 100, 499, 500, 1500, 1999, 2000, 2399, 2400}

\* the world of a new match of two players rated white_rating and
\* black_rating in the class of time_control
RatedWorld(time_control, game_type, white_rating, black_rating) ==
  [NewWorld(time_control, "none", 0) EXCEPT
     !.gd.game_type = game_type,
     !.users[WhiteUser].rating[get_rating_type(time_control)] = white_rating,
     !.users[BlackUser].rating[get_rating_type(time_control)] = black_rating]

\* on_seek_game matches the two players again
EloRematch ==
  /\ gd.status = "finished"
  /\ steps < MaxRatedRematches
  /\ Apply([W |-> [NewWorld(gd.time_control, "none", now) EXCEPT
                     !.gd.game_type = gd.game_type,
                     !.users = users],
            last |-> [NoLast EXCEPT !.op = "seek_game"]])

EloResign ==
  /\ gd.status # "finished"
  /\ \E username \in Usernames : Observe(on_resign(World, username))

EloAcceptDraw ==
  /\ gd.status # "finished"
  /\ \E username \in Usernames : Observe(on_accept_draw(World, username))

InitElo ==
  /\ \E time_control \in {"1+0", "3+0"}, game_type \in {"ranked", "friendly"},
        white_rating \in RatingSamples, black_rating \in RatingSamples :
        IsWorld(RatedWorld(time_control, game_type, white_rating,
                           black_rating))
  /\ script = << >>
  /\ last = NoLast
  /\ steps = 0
  /\ owed = 0
  /\ LobbyIdle

NextElo ==
  \/ EloRematch
  \/ EloResign
  \/ EloAcceptDraw

SpecElo == InitElo /\ [][NextElo]_vars

---------------------------------------------------------------------------
(* The calendar from the start of the server: passes of                    *)
(* create_scheduled_tournaments (start-up, tournament pages) and of        *)
(* start_scheduled_tournaments (the same, and run_continuous_pairing every *)
(* 3 s), joins, and the passing of time                                    *)

\* an event of the calendar was handled: the rest of the world is as before
SchedStep(op) ==
  /\ last' = LobbyLast(op, IF tournaments'.next_id > tournaments.next_id
                           THEN "created" ELSE "none", "none", "none")
  /\ UNCHANGED <<game, gd, timer, users, players_in_game_menu, now, steps,
                 script, owed>>
  /\ UNCHANGED lobby

CreatePass ==
  /\ \E time_control \in TIME_CONTROLS :
        tournaments' = create_scheduled_tournaments(tournaments, now,
                                                    time_control)
  /\ SchedStep("create_scheduled_tournaments")

StartPass ==
  /\ tournaments' = start_scheduled_tournaments(tournaments, now)
  /\ SchedStep("start_scheduled_tournaments")

JoinTournament ==
  /\ \E t \in tournaments.all :
        tournaments' = ActivatedOnJoin(tournaments, t.id, now)
  /\ SchedStep("join_tournament")

\* the steps in which time.time() moves on
SchedTicks == {Minutes(5), Minutes(55)}

SchedTick ==
  /\ steps < MaxSchedTicks
  /\ \E d \in SchedTicks : now' = now + d
  /\ steps' = steps + 1
  /\ last' = [NoLast EXCEPT !.op = "tick"]
  /\ UNCHANGED <<game, gd, timer, users, tournaments, players_in_game_menu,
                 script, owed>>
  /\ UNCHANGED lobby

\* the server starts on a Monday at midnight or a few minutes after
InitSched ==
  /\ \E t0 \in {0, Minutes(3) + Seconds(1)} :
        IsWorld([NewWorld("1+0", "none", t0) EXCEPT
                   !.tournaments = NoTournaments])
  /\ script = << >>
  /\ last = NoLast
  /\ steps = 0
  /\ owed = 0
  /\ LobbyIdle

NextSched ==
  \/ CreatePass
  \/ StartPass
  \/ JoinTournament
  \/ SchedTick

SpecSched == InitSched /\ [][NextSched]_vars

---------------------------------------------------------------------------
(* Properties of the board rules, checked under SpecBoard *)

\* position p is part of a complete line of three of the colour on it
InIntactMill(board, p) ==
  /\ board[p] # "none"
  /\ \E mill \in mills : p \in mill /\ \A q \in mill : board[q] = board[p]

\* every piece of the colour on the board is part of a complete line
AllInMills(board, color) ==
  \A q \in Positions : board[q] = color => InIntactMill(board, q)

\* the last request asked for a capture that the handler looked at: a
\* capture call during waiting_for_removal, or a move that closed a mill
\* and named a position to capture
CaptureConsidered ==
  /\ last.op = "make_move"
  /\ \/ last.outcome \in {"capture_accepted", "capture_rejected"}
     \/ last.outcome = "accepted" /\ last.mill /\ last.remove_pos # NoPos

CaptureTargetExists ==
  \E p \in Positions :
     last.mid[p] = Other(last.mover) /\ ~ InIntactMill(last.mid, p)

\* C3: after every accepted move the side to move is still the mover
\* exactly when the handler reports that it waits for a capture, and it
\* reports that exactly when the move closed a mill, a legal capture target
\* exists and the call named no capture; otherwise the side to move is the
\* opponent
C3_TurnAdvance ==
  last.op = "make_move" /\ last.outcome = "accepted" =>
    /\ (game.current_player = last.mover) <=> last.awaiting
    /\ (game.current_player = Other(last.mover)) <=> ~ last.awaiting
    /\ last.awaiting <=>
         (last.mill /\ CaptureTargetExists /\ last.remove_pos = NoPos)

Occupied(board) == Cardinality({p \in Positions : board[p] # "none"})

\* C4: in every step at most 18 positions are occupied while the phase is
\* placing, and once placing has ended no colour's number of pieces on the
\* board increases
C4_Occupancy ==
  [][ /\ game'.phase = 1 => Occupied(game'.board) <= 18
      /\ game.phase >= 2 =>
           \A color \in Colors :
              PieceCount(game'.board, color) <= PieceCount(game.board, color)
    ]_vars

\* C4 witness: past the placing phase a piece was moved and a piece captured
C4_Witness ==
  /\ last.op = "make_move" /\ last.outcome = "accepted"
  /\ last.phase >= 2
  /\ last.removed
  /\ game.board[last.from_pos] = "none"
  /\ game.board[last.to_pos] = last.mover

\* C5: neither colour's remaining-to-place count is ever below 0, and once
\* the phase is past placing both colours have placed all 9 pieces
C5_NinePiecesEach ==
  /\ game.white_pieces >= 0
  /\ game.black_pieces >= 0
  /\ game.phase >= 2 => game.white_pieces = 0 /\ game.black_pieces = 0

\* C6: a make_move request the board rejects leaves the board, the phase,
\* the side to move, the remaining-to-place counts and the move log as they
\* were
C6_RejectedMoveNoOp ==
  [][last'.op = "make_move" /\ last'.outcome = "rejected" => game' = game]_vars

\* C6 witness: a placement onto an occupied position was rejected
C6_Witness ==
  /\ last.op = "make_move" /\ last.outcome = "rejected"
  /\ last.phase = 1
  /\ last.mid[last.to_pos] # "none"
  /\ game.board = last.mid

\* the movement rule of C7 for the side to move
MoveRule(g, from_pos, to_pos) ==
  /\ g.board[from_pos] = g.current_player
  /\ g.board[to_pos] = "none"
  /\ \/ PieceCount(g.board, g.current_player) = 3
     \/ to_pos \in adjacents[from_pos]

\* C7: past the placing phase the board accepts a move exactly when the
\* side to move owns from_pos, to_pos is empty, and the side has exactly 3
\* pieces on the board or to_pos is adjacent to from_pos, in phase 2 and in
\* phase 3 alike
C7_MovementRule ==
  game.phase >= 2 =>
    \A from_pos \in Positions, to_pos \in Positions :
       make_move(game, from_pos, to_pos, NoPos).success
         <=> MoveRule(game, from_pos, to_pos)

\* C7 witness: while the phase was still 2 (moving) a side with 3 pieces
\* moved to a position that is not adjacent
C7_Witness ==
  /\ last.op = "make_move" /\ last.outcome = "accepted"
  /\ last.phase = 2
  /\ last.from_pos # NoPos
  /\ last.to_pos \notin adjacents[last.from_pos]
  /\ game.board[last.to_pos] = last.mover

\* the result of C8 for a board: a side with 2 or fewer pieces past the
\* placing phase has lost; else the game is drawn when the log has at least
\* 50 entries and none of the last 50 records a mill or a capture
EvaluateResult(g) ==
  LET n == Len(g.moves)
  IN  IF g.phase >= 2 /\ PieceCount(g.board, "white") <= 2 THEN "black"
      ELSE IF g.phase >= 2 /\ PieceCount(g.board, "black") <= 2 THEN "white"
      ELSE IF n >= 50
              /\ \A i \in (n - 49)..n :
                    ~ g.moves[i].mill /\ g.moves[i].remove = NoPos
           THEN "draw"
      ELSE "none"

\* C8: get_winner returns the loss of a side exactly when the placing phase
\* is over and the side has 2 or fewer pieces, otherwise a draw exactly when
\* the log has at least 50 entries and none of the last 50 records a mill or
\* a capture, otherwise no result
C8_EvaluateResult ==
  get_winner(game) = EvaluateResult(game)

---------------------------------------------------------------------------
(* Properties of the clock, checked under SpecClock *)

\* C9: a step that is no side switch leaves the inactive side's time
\* unchanged and never increases the active side's: a read or a pause of
\* the running clock charges the active side exactly the time the clock has
\* run since the last charge (never below 0), and a read, a pause or a
\* resume of a clock that is not running, and the passing of time, change
\* neither side's time
C9_ChargeActiveWhileRunning ==
  [][last'.op \in {"get_current_times", "pause", "resume", "tick"} =>
       /\ TimeOf(timer', Other(timer.active_player))
            = TimeOf(timer, Other(timer.active_player))
       /\ TimeOf(timer', timer.active_player)
            = IF last'.op \in {"get_current_times", "pause"}
                 /\ timer.state = TIMER_RUNNING
              THEN Max(0, TimeOf(timer, timer.active_player) - owed)
              ELSE TimeOf(timer, timer.active_player)
       /\ timer'.active_player = timer.active_player
    ]_vars

\* C9 witness: white was the active side throughout; time passed while the
\* clock was paused and while it was running, and a read charged white the
\* running time only
C9_Witness ==
  /\ last.op = "get_current_times"
  /\ timer.state = TIMER_RUNNING
  /\ timer.move_count = 0
  /\ timer.white_time < Seconds(60)
  /\ timer.white_time > 0
  /\ timer.white_time + now > Seconds(60)
  /\ timer.black_time = Seconds(60)

---------------------------------------------------------------------------
(* Properties of the match session, checked under Spec *)

\* C1: once the session's status is finished, no later make_move, resign,
\* accept_draw or berserk changes its winner, its end reason, the board,
\* the berserk flags, or a player's ratings and game counters
C1_FinishedImmutable ==
  [][gd.status = "finished"
     /\ last'.op \in {"make_move", "resign", "accept_draw", "berserk"} =>
       /\ gd'.winner = gd.winner
       /\ gd'.end_reason = gd.end_reason
       /\ game'.board = game.board
       /\ gd'.berserk = gd.berserk
       /\ users' = users
    ]_vars

\* C10: an accepted move or capture never adds time to the opponent of the
\* side that made it; when it credits the increment, the side that made it
\* has its time before the move less the elapsed time plus the increment;
\* and while the clock stays paused no time is credited
C10_IncrementToMover ==
  [][last'.op = "make_move"
     /\ last'.outcome \in {"accepted", "capture_accepted"} =>
       /\ TimeOf(timer', Other(last'.mover))
            <= TimeOf(timer, Other(last'.mover))
       /\ last'.increment_applied /\ timer.state = TIMER_RUNNING =>
            TimeOf(timer', last'.mover)
              = Max(0, TimeOf(timer, last'.mover) - (now - timer.last_update))
                + timer.increment
       /\ timer'.state = TIMER_PAUSED =>
            /\ ~ last'.increment_applied
            /\ timer'.white_time = timer.white_time
            /\ timer'.black_time = timer.black_time
    ]_vars


---------------------------------------------------------------------------
(* Properties of the match session under fair polling, checked under      *)
(* SpecLive                                                               *)

\* the clock of the match is running and the remaining time of its active
\* side, color, has reached zero
FlagFallen(color) ==
  /\ gd.status = "playing"
  /\ timer.registered
  /\ timer.state = TIMER_RUNNING
  /\ timer.active_player = color
  /\ TimeOf(timer, color) - (now - timer.last_update) <= 0

\* update_ratings has rated the match for both players
BothRated ==
  \A u \in Usernames :
     users[u].games_played[get_rating_type(gd.time_control)] > 0

\* C11: with the poller thread scheduled fairly, whenever the active side
\* of a running clock has no time left, the match eventually is finished
\* with the other side as winner and both players rated
C11_TimeoutFinishes ==
  \A color \in Colors :
     FlagFallen(color)
       ~> (gd.status = "finished" /\ gd.winner = Other(color) /\ BothRated)


---------------------------------------------------------------------------
(* Properties of the first moves of a match, checked under Spec *)

\* the side color has a move in the log of the board game
HasMoved(g, color) ==
  \E i \in 1..Len(g.moves) : g.moves[i].player = color

\* the step is the first accepted move of the side color
FirstAcceptedMove(color) ==
  /\ last'.op = "make_move"
  /\ last'.outcome = "accepted"
  /\ last'.color = color
  /\ ~ HasMoved(game, color)

\* C12: while the status is waiting_first_move the clock is paused, and
\* the status stays waiting_first_move until both sides have moved once;
\* white's first move sets the first-move deadline to 20 s after the move
\* and leaves black awaited, black's first move sets the status to playing
\* and the clock running
C12_FirstMoves ==
  [][ /\ gd.status = "waiting_first_move" => timer.state = TIMER_PAUSED
      /\ gd.status = "waiting_first_move" /\ gd'.status = "playing"
           => HasMoved(game', "white") /\ HasMoved(game', "black")
      /\ FirstAcceptedMove("white")
           => /\ gd'.status = "waiting_first_move"
              /\ gd'.waiting_for_first_move = "black"
              /\ gd'.first_move_deadline = now' + Seconds(20)
              /\ timer'.state = TIMER_PAUSED
      /\ FirstAcceptedMove("black")
           => /\ gd'.status = "playing"
              /\ timer'.state = TIMER_RUNNING
    ]_vars


\* the side color is awaited for its first move: it is to move and has no
\* move in the log
AwaitedForFirstMove(color) ==
  /\ gd.status # "finished"
  /\ game.current_player = color
  /\ ~ HasMoved(game, color)

\* the first-move deadline of the awaited side color has passed
FirstMoveOverdue(color) ==
  /\ AwaitedForFirstMove(color)
  /\ now >= gd.first_move_deadline

\* C13: a side is forfeited for first-move timeout if and only if it is
\* awaited for its first move and its deadline has passed before that move
\* was accepted; the match is then finished with the other side as winner
\* and both players rated, in casual and tournament matches
C13_FirstMoveForfeit ==
  /\ \A color \in Colors :
        FirstMoveOverdue(color)
          ~> (gd.status = "finished" /\ gd.winner = Other(color) /\ BothRated)
  /\ [][last'.outcome = "first_move_timeout"
          => /\ FirstMoveOverdue(Other(last'.result))
             /\ gd'.status = "finished"
             /\ gd'.winner = last'.result
             /\ BothRated' ]_vars


---------------------------------------------------------------------------
(* Properties of the matchmaker, checked under SpecSeek *)

\* seeking is not refused: the player is not banned, not paused and has
\* no open match
SeekAllowed(username) ==
  /\ username \notin banned_users
  /\ username \notin paused_users
  /\ \A i \in 1..Len(games) :
        username \in MatchPlayers(games[i])
          => games[i].gd.status = "finished"

\* the waiting seeks of a queue for time_control by others than username
WaitingOthers(rooms, username, time_control) ==
  { i \in 1..Len(rooms) :
      /\ rooms[i].time_control = time_control
      /\ rooms[i].players # <<username>> }

\* the waiting seeks of username in a queue
SeeksOf(rooms, username) ==
  { i \in 1..Len(rooms) : rooms[i].players = <<username>> }

\* m is a new match of the two distinct players a and b for time_control,
\* both clocks at the base time, waiting for the first move
FreshMatch(m, a, b, time_control) ==
  /\ MatchPlayers(m) = {a, b}
  /\ m.gd.white # m.gd.black
  /\ m.gd.time_control = time_control
  /\ m.gd.status = "waiting_first_move"
  /\ m.timer.white_time = parse_time_control(time_control)[1]
  /\ m.timer.black_time = parse_time_control(time_control)[1]

C15_OneSeekEach ==
  /\ [](\A u \in Players : Cardinality(SeeksOf(game_rooms, u)) <= 1)
  /\ [][ last'.op = "seek_game" /\ last'.removed
           /\ last'.outcome = "waiting"
           => \A k \in SeeksOf(game_rooms', last'.username) :
                 game_rooms'[k].time_control = last'.time_control ]_vars

\* a waiting player sought again, with another time control, and waits
C15_Witness ==
  /\ last.op = "seek_game"
  /\ last.removed
  /\ last.outcome = "waiting"
  /\ \E k \in SeeksOf(game_rooms, last.username) :
        game_rooms[k].time_control = last.time_control
  /\ Len(game_rooms) = 2

\* C16: no match is made with a player who is banned or paused when the
\* pair is formed
C16_NoFlaggedPlayerPaired ==
  [][ \A i \in (Len(games) + 1)..Len(games') :
         MatchPlayers(games'[i]) \cap (banned_users \cup paused_users) = {}
    ]_vars


---------------------------------------------------------------------------
(* Pairing avoids the immediate rematch                                    *)

\* the matches the step has created
CreatedMatches == { games'[i] : i \in (Len(games) + 1)..Len(games') }

\* username is recorded as the last opponent of player
IsLastOpponentOf(username, player) ==
  tournament_recent_opponents[player] = username

\* C17: every tournament match, created by a pairing round or for one
\* player asking to be paired, is between two players neither of whom was
\* recorded as the other's last opponent when it was created
C17_NoImmediateRematch ==
  [][ \A m \in CreatedMatches :
         /\ ~IsLastOpponentOf(m.gd.white, m.gd.black)
         /\ ~IsLastOpponentOf(m.gd.black, m.gd.white) ]_vars

\* the matches of username, by index
MatchesOf(username) ==
  { i \in 1..Len(games) : username \in MatchPlayers(games[i]) }

\* the last event paired a player with a new opponent while the opponent
\* of the player's previous match was free to play and stayed unpaired
C17_Witness ==
  /\ last.outcome = "paired"
  /\ \E u \in Players :
        /\ Len(games) \in MatchesOf(u)
        /\ \E i \in MatchesOf(u), v \in Players \ {u} :
              /\ MatchesOf(u) \cap (i + 1)..Len(games) = {Len(games)}
              /\ MatchPlayers(games[i]) = {u, v}
              /\ v \notin MatchPlayers(games[Len(games)])
              /\ IsAvailable(games, paused_users, players_in_game_menu, v)


---------------------------------------------------------------------------
(* The record of last opponents                                            *)

\* C18: in every reachable state of a tournament the last-opponent
\* relation is symmetric: if the recorded last opponent of a is b, the
\* recorded last opponent of b is a
C18_LastOpponentSymmetric ==
  \A a \in Players, b \in Players :
     tournament_recent_opponents[a] = b
       => tournament_recent_opponents[b] = a

\* a and b have played each other
HavePlayed(a, b) ==
  \E i \in 1..Len(games) : MatchPlayers(games[i]) = {a, b}

\* the newest match of a is over and was against somebody other than b
HasSincePlayedAnother(a, b) ==
  /\ MatchesOf(a) # {}
  /\ \A j \in MatchesOf(a) :
        (MatchesOf(a) \cap (j + 1)..Len(games) = {})
          => /\ games[j].gd.status = "finished"
             /\ b \notin MatchPlayers(games[j])

\* C19: after a and b have played each other, as soon as a has played one
\* match against a different opponent, a and b may be paired with each
\* other again
C19_RematchAfterOneGame ==
  \A a \in Players, b \in Players :
     (a # b /\ HavePlayed(a, b) /\ HasSincePlayedAnother(a, b))
       => MayPair(tournament_recent_opponents, a, b)

---------------------------------------------------------------------------
(* The order of a pairing round                                            *)

\* the step is a pairing round
IsPairingRound == last'.op = "run_tournament_pairing_round"

\* the players a pairing round chooses from: not paused, not in the
\* after-game menu, not in a match
RoundPool ==
  { u \in tournaments.roster :
      /\ u \notin paused_users
      /\ u \notin players_in_game_menu'
      /\ \A i \in MatchesOf(u) : games[i].gd.status = "finished" }

\* the pairs the step has formed
RoundPairs == { MatchPlayers(m) : m \in CreatedMatches }

\* a is not ranked below b: descending by (score, rating)
RankedNotBelow(a, b) ==
  \/ tournaments.players[a].score > tournaments.players[b].score
  \/ /\ tournaments.players[a].score = tournaments.players[b].score
     /\ tournaments.players[a].rating >= tournaments.players[b].rating

\* the orders of the pool that descend by (score, rating)
RankedOrders ==
  { order \in [1..Cardinality(RoundPool) -> RoundPool] :
      /\ \A i, j \in DOMAIN order : i # j => order[i] # order[j]
      /\ \A i, j \in DOMAIN order :
            i < j => RankedNotBelow(order[i], order[j]) }

\* neither of a, b is recorded as the last opponent of the other
Eligible(a, b) == ~IsLastOpponentOf(a, b) /\ ~IsLastOpponentOf(b, a)

\* order[k] was already paired when the turn of order[i] came
PairedBefore(order, k, i) ==
  \E h \in 1..(i - 1) : {order[h], order[k]} \in RoundPairs

\* the pairs are those of walking order from the top and pairing each
\* still unpaired player with the first later unpaired eligible candidate
IsGreedyPairing(order) ==
  /\ \A p \in RoundPairs : Cardinality(p) = 2 /\ p \subseteq RoundPool
  /\ \A p \in RoundPairs, q \in RoundPairs : p # q => p \cap q = {}
  /\ Cardinality(RoundPairs) = Len(games') - Len(games)
  /\ \A i \in DOMAIN order, j \in DOMAIN order :
        (i < j /\ {order[i], order[j]} \in RoundPairs)
          => /\ Eligible(order[i], order[j])
             /\ \A k \in (i + 1)..(j - 1) :
                   PairedBefore(order, k, i) \/ ~Eligible(order[i], order[k])
  /\ \A i \in DOMAIN order :
        (\A p \in RoundPairs : order[i] \notin p)
          => \A k \in (i + 1)..Len(order) :
                PairedBefore(order, k, i) \/ ~Eligible(order[i], order[k])

\* with no record of a last opponent the pairs are ranks 1-2, 3-4, ...
PairsAdjacentRanks(order) ==
  (\A u \in RoundPool : tournament_recent_opponents[u] = "none")
    => \A k \in 1..(Len(order) \div 2) :
          {order[2 * k - 1], order[2 * k]} \in RoundPairs

\* C20: a pairing round orders the pool by descending (score, rating) and
\* pairs each still unpaired player, in that order, with the first later
\* unpaired candidate that is eligible; with no last-opponent records it
\* pairs ranks 1-2, 3-4 and so on; no player is in two pairs of one round
C20_RoundPairsByRank ==
  [][ IsPairingRound
        => \E order \in RankedOrders :
              IsGreedyPairing(order) /\ PairsAdjacentRanks(order) ]_vars

\* a pairing round has formed two pairs at once after an earlier match had
\* left its players with a record of each other and unequal scores
C20_Witness ==
  /\ last.op = "run_tournament_pairing_round"
  /\ Len(games) = 3
  /\ games[1].gd.status = "finished"
  /\ games[1].gd.winner # "draw"
  /\ games[2].gd.status # "finished"
  /\ games[3].gd.status # "finished"
  /\ MatchPlayers(games[1]) \cap MatchPlayers(games[2]) # {}
  /\ MatchPlayers(games[1]) \cap MatchPlayers(games[3]) # {}


---------------------------------------------------------------------------
(* Tournament scoring                                                      *)

\* the step ends a tournament match
TournamentMatchEnds ==
  /\ gd.status # "finished"
  /\ gd'.status = "finished"
  /\ gd.tournament_id # "none"

\* the score and the count of consecutive wins of username move by points
\* and to streak
Scored(username, points, streak) ==
  /\ tournaments'.players[username].score =
       tournaments.players[username].score + points
  /\ tournaments'.streaks[username] = streak

\* the winner, of colour color, scores 2, plus 1 for berserk, plus 2 when
\* the win is the third in a row or a later one; the loser scores 0
WinScored(color) ==
  LET winner == IF color = "white" THEN gd.white ELSE gd.black
      loser == IF color = "white" THEN gd.black ELSE gd.white
      count == tournaments.streaks[winner] + 1
  IN /\ Scored(winner,
               2 + (IF gd.berserk[color] THEN 1 ELSE 0)
                 + (IF count >= 3 THEN 2 ELSE 0),
               count)
     /\ Scored(loser, 0, 0)

\* each side of a draw scores 1, or 2 when its count was 3 or more
DrawScored ==
  \A username \in {gd.white, gd.black} :
     Scored(username,
            IF tournaments.streaks[username] >= 3 THEN 2 ELSE 1, 0)

---------------------------------------------------------------------------
(* Ratings                                                                 *)

\* the rating of username in the class of the match
RatingOf(us, username) == us[username].rating[get_rating_type(gd.time_control)]

\* the step ends a rated match with a winner
RatedDecisiveEnd ==
  /\ gd.status # "finished"
  /\ gd'.status = "finished"
  /\ gd.game_type # "friendly"
  /\ gd'.winner \in Colors

Winner == IF gd'.winner = "white" THEN gd.white ELSE gd.black
Loser == IF gd'.winner = "white" THEN gd.black ELSE gd.white

\* K by the tiers of the claim
TierK(rating) ==
  IF rating < 1500 THEN 32
  ELSE IF rating <= 1999 THEN 24
  ELSE 16

\* C22: in a rated decisive match between two players of equal rating R
\* the winner's rating becomes R + K/2 and the loser's max(50, R - K/2),
\* with K = 32 below 1500 (16 points), 24 from 1500 to 1999 and 16 from
\* 2000 up
C22_EqualRatings ==
  [][ (RatedDecisiveEnd /\ RatingOf(users, Winner) = RatingOf(users, Loser))
        => LET R == RatingOf(users, Winner)
               half == TierK(R) \div 2
           IN /\ RatingOf(users', Winner) = R + half
              /\ RatingOf(users', Loser) =
                   (IF R - half < 50 THEN 50 ELSE R - half) ]_vars

\* the spec's scenario: two players rated 100, white has won
C22_Witness ==
  /\ gd.status = "finished"
  /\ gd.winner = "white"
  /\ gd.game_type = "ranked"
  /\ users[gd.white].games_played[get_rating_type(gd.time_control)] = 1
  /\ RatingOf(users, gd.white) = 116
  /\ RatingOf(users, gd.black) = 84

\* C23: after any sequence of rated match terminations no rating of any
\* player, in either time-control class, is below the floor of 50
C23_RatingFloor ==
  \A username \in Usernames :
     /\ users[username].rating["bullet"] >= 50
     /\ users[username].rating["blitz"] >= 50

\* a player rated 60 has lost a rated match to an equal and stands at the
\* floor, 44 being below it
C23_Witness ==
  /\ gd.status = "finished"
  /\ gd.winner = "white"
  /\ gd.game_type = "ranked"
  /\ users[gd.white].games_played[get_rating_type(gd.time_control)] = 1
  /\ RatingOf(users, gd.white) = 76
  /\ RatingOf(users, gd.black) = 50

\* the gap between the two ratings before the match
RatingGap ==
  IF RatingOf(users, Winner) >= RatingOf(users, Loser)
  THEN RatingOf(users, Winner) - RatingOf(users, Loser)
  ELSE RatingOf(users, Loser) - RatingOf(users, Winner)

\* C24: in a rated decisive match where the ratings were at least 400
\* apart and the higher rated side won, the winner's rating does not
\* change; in every other rated decisive match the winner gains at least 1
C24_AntiFarming ==
  [][ RatedDecisiveEnd
        => IF RatingGap >= 400
              /\ RatingOf(users, Winner) > RatingOf(users, Loser)
           THEN RatingOf(users', Winner) = RatingOf(users, Winner)
           ELSE RatingOf(users', Winner) >= RatingOf(users, Winner) + 1 ]_vars

\* a player rated 500 has beaten a player rated 100 for nothing, the loser
\* paying for it
C24_Witness ==
  /\ gd.status = "finished"
  /\ gd.winner = "black"
  /\ gd.game_type = "ranked"
  /\ users[gd.white].games_played[get_rating_type(gd.time_control)] = 1
  /\ RatingOf(users, gd.black) = 500
  /\ RatingOf(users, gd.white) < 100


---------------------------------------------------------------------------
(* Berserk                                                                 *)

\* the time the clock shows for color at the present moment
RemainingNow(color) == TimeOf(get_current_times(timer, now), color)

\* the same after the step
RemainingNext(color) == TimeOf(get_current_times(timer', now'), color)

\* the match session and its clock are as before
SessionUnchanged == UNCHANGED <<game, gd, timer, users, tournaments,
                                players_in_game_menu, now>>

\* the berserk of color was accepted by the step
BerserkAccepted(color) ==
  /\ last'.op = "berserk"
  /\ last'.outcome = "accepted"
  /\ last'.color = color

\* C25: berserk is accepted only in a tournament match, only for a side
\* that has not berserked in it, and only within the first 2 moves; an
\* accepted berserk halves the remaining time of that side, leaves the time
\* of the other side as it was and sets the side's flag, which is never
\* reset; a rejected berserk changes nothing
C25_Berserk ==
  [][ gd.status # "finished"
        => /\ \A color \in Colors :
                 BerserkAccepted(color)
                   => /\ gd.tournament_id # "none"
                      /\ ~ gd.berserk[color]
                      /\ Len(game.moves) <= 2
                      /\ gd'.berserk[color]
                      /\ RemainingNext(color) = RemainingNow(color) \div 2
                      /\ RemainingNext(Other(color)) =
                           RemainingNow(Other(color))
           /\ (last'.op = "berserk" /\ last'.outcome = "rejected")
                 => SessionUnchanged
           /\ \A color \in Colors : gd.berserk[color] => gd'.berserk[color]
    ]_vars


---------------------------------------------------------------------------
(* The calendar the creation passes build                                  *)

\* t and u are two tournaments under one key of the existence test: the
\* type, and the time control too for the types created with a fixed one
SameKey(t, u) ==
  /\ t.id # u.id
  /\ t.tournament_type = u.tournament_type
  /\ (t.tournament_type = "weekly" => t.time_control = u.time_control)

\* the step is a creation pass
IsCreatePass == last'.op = "create_scheduled_tournaments"

\* C26: after any number of creation passes no two tournaments of the same
\* type (and the same time control, for the types keyed by time control)
\* have start times less than 5 minutes apart
C26_NoNearDuplicates ==
  \A t \in tournaments.all, u \in tournaments.all :
     SameKey(t, u) => ~ Near(t.start_time, u.start_time)

\* a creation pass that follows a creation pass, with no time elapsed and
\* nothing else handled in between, creates no tournament
C26_RepeatedPassCreatesNothing ==
  [][ last.op = "create_scheduled_tournaments" /\ IsCreatePass
        => tournaments' = tournaments ]_vars

\* a creation pass found a calendar whose tournaments are apart and left one
\* with two daily arenas less than 5 minutes apart
C26_TwoDailiesCreated ==
  /\ last.op = "create_scheduled_tournaments"
  /\ last.outcome = "created"
  /\ \E t \in tournaments.all, u \in tournaments.all :
        /\ SameKey(t, u)
        /\ t.status = "active" /\ u.status = "scheduled"
        /\ Near(t.start_time, u.start_time)


---------------------------------------------------------------------------
(* The life of a tournament: scheduled, active, finished, removed          *)

\* the scheduler loop: run_continuous_pairing runs a pass of
\* start_scheduled_tournaments every 3 s for as long as the server runs
SpecSchedLive == InitSched /\ [][NextSched]_vars /\ WF_vars(StartPass)

StatusRank(status) ==
  IF status = "scheduled" THEN 1 ELSE IF status = "active" THEN 2 ELSE 3

\* the ids a tournament of the calendar can have: an immediate arena and an
\* hourly one for each hour time can reach, the hourly ones of the hours
\* ahead, the weekly ones of the days ahead
TournamentIds ==
  1..(2 * (MaxSchedTicks + 1) + MaxHoursAhead + 3 * (MaxDaysAhead + 1))

\* the tournament id is in the dictionary with this status
HasStatus(id, status) ==
  \E t \in tournaments.all : t.id = id /\ t.status = status

\* the tournament id is scheduled and its start time has come
Overdue(id) ==
  \E t \in tournaments.all :
     t.id = id /\ t.status = "scheduled" /\ now >= t.start_time

\* what a step does to tournament t of the dictionary
LifeStep(t) ==
  IF \E u \in tournaments'.all : u.id = t.id
  THEN \A u \in tournaments'.all :
          u.id = t.id =>
            /\ StatusRank(u.status) \in
                 {StatusRank(t.status), StatusRank(t.status) + 1}
            /\ (t.status = "scheduled" /\ u.status = "active"
                  => now >= t.start_time)
            /\ (t.status = "active" /\ u.status = "finished"
                  => now >= t.end_time)
  ELSE /\ t.status = "finished"
       /\ now >= t.finished_time + Minutes(5)

\* a tournament the step adds is a new one, scheduled or active, and active
\* only if its start time has come (no removed tournament comes back)
BirthStep(u) ==
  (\A t \in tournaments.all : t.id # u.id) =>
     /\ u.id >= tournaments.next_id
     /\ u.id \in TournamentIds
     /\ u.status \in {"scheduled", "active"}
     /\ (u.status = "active" => now >= u.start_time)

\* C27: a tournament's status only moves forward through scheduled, active,
\* finished, removed; it becomes active only when now >= start_time, is
\* finished by the scheduler only when now >= end_time, is removed only when
\* 5 minutes have passed since it finished; and with the scheduler loop
\* running, a scheduled tournament whose start time has come becomes active
C27_Lifecycle ==
  /\ [][ /\ \A t \in tournaments.all : LifeStep(t)
         /\ \A u \in tournaments'.all : BirthStep(u) ]_vars
  /\ \A id \in TournamentIds : Overdue(id) ~> HasStatus(id, "active")

\* a start pass has removed a finished tournament and started an hourly
\* arena whose time had come
C27_Witness ==
  /\ last.op = "start_scheduled_tournaments"
  /\ Cardinality(tournaments.all) < tournaments.next_id - 1
  /\ \E t \in tournaments.all :
        /\ t.status = "active"
        /\ t.start_time % Hours(1) = Minutes(3)
        /\ now >= t.start_time


---------------------------------------------------------------------------
(* Matches of one tournament ended by resignation, with a database that    *)
(* can refuse a write                                                      *)

\* on_resign when save_user_to_db or save_game_to_db raises: they are called
\* at the end of update_ratings, not for a friendly game, and nothing on the
\* way back to the event loop catches the exception, so the handler ends
\* inside update_ratings
on_resign_save_raises(W, username) ==
  IF W.gd.status = "finished" \/ W.gd.winner # "none"
     \/ W.gd.game_type = "friendly"
  THEN on_resign(W, username)
  ELSE [W |-> Rate(stop_game_timer(
                     [W EXCEPT !.gd.status = "finished",
                               !.gd.winner =
                                  Other(PlayerColor(W.gd, username)),
                               !.gd.end_reason = "resignation"]),
                   Other(PlayerColor(W.gd, username))),
        last |-> [NoLast EXCEPT !.op = "resign", !.outcome = "save_failed",
                                !.color = PlayerColor(W.gd, username)]]

ResignSaveRaises ==
  /\ gd.status # "finished"
  /\ \E username \in Usernames :
        Observe(on_resign_save_raises(World, username))

\* the next match of the two players, for as long as they have played no
\* more than MaxRematches bullet games
SaveRematch ==
  /\ gd.status = "finished"
  /\ users[WhiteUser].games_played["bullet"] <= MaxRematches
  /\ Observe([W |-> [NewWorld("1+0", "t1", now) EXCEPT
                        !.users = users,
                        !.tournaments = tournaments],
              last |-> [NoLast EXCEPT !.op = "create_tournament_game"]])

NextSave ==
  \/ SaveRematch
  \/ SeriesResign
  \/ ResignSaveRaises

SpecSave == InitSeries /\ [][NextSave]_vars

\* the step ends the match
MatchTerminated == gd.status # "finished" /\ gd'.status = "finished"

\* the match is finished with its winner and the ratings and game counters
\* of both players are updated
FinishedAndRated ==
  /\ gd'.winner \in Colors \cup {"draw"}
  /\ users' = update_ratings(users, gd', gd'.winner)

\* the tournament scores are updated and the players are released
ScoredAndReleased ==
  /\ tournaments' = update_tournament_scores(tournaments, gd', gd'.winner)
  /\ players_in_game_menu' =
       requeue_tournament_players(players_in_game_menu, tournaments', gd')

\* C28: whether or not a save fails while a match is terminated, the match
\* is finished with its winner, both ratings and game counters are updated,
\* the tournament scores are updated and the players are released
C28_TerminationCompletes ==
  [][ MatchTerminated => FinishedAndRated /\ ScoredAndReleased ]_vars

\* the part of the transition made before the first save
C28_RatedBeforeSave == [][ MatchTerminated => FinishedAndRated ]_vars

\* the transition completes when no save fails
C28_CompletesWhenSaved ==
  [][ MatchTerminated /\ last'.outcome # "save_failed"
        => FinishedAndRated /\ ScoredAndReleased ]_vars


---------------------------------------------------------------------------
(* A make_move request the board rejects, checked under Spec *)

\* the step is a make_move whose placement, move or capture the board
\* refused
BoardRejected ==
  /\ last'.op = "make_move"
  /\ last'.outcome \in {"rejected", "capture_rejected"}

\* status, first-move flags and first-move deadline of the session
FirstMoveState(g_data) ==
  <<g_data.status, g_data.white_first_move_made,
    g_data.black_first_move_made, g_data.waiting_for_first_move,
    g_data.first_move_deadline, g_data.timer_started>>

\* C29: a make_move that the board rejects leaves the whole session
\* unchanged: the board, the status, the first-move flags and deadline, and
\* the clock's run state and active side are as before the call
C29_RejectedMoveChangesNothing ==
  [][ BoardRejected
        => /\ game' = game
           /\ FirstMoveState(gd') = FirstMoveState(gd)
           /\ timer'.state = timer.state
           /\ timer'.active_player = timer.active_player ]_vars

\* once both sides have passed the first-move block, a rejected request
\* changes nothing of the session
C29_UnchangedAfterFirstMoves ==
  [][ BoardRejected /\ gd.white_first_move_made /\ gd.black_first_move_made
        => SessionUnchanged ]_vars


---------------------------------------------------------------------------
(* The match session at the grain of its locks: on_make_move calls         *)
(* game.make_move outside timer_lock and takes the lock afterwards, once   *)
(* for the move's timestamp and once more inside switch_player_timer;      *)
(* timer_thread is a threading.Thread that takes the same lock every       *)
(* 0.1 s. Here script holds the request whose handler has the board's      *)
(* answer and has not yet reached the end:                                 *)
(* <<username, from_pos, to_pos, remove_pos, result, mover>>               *)

\* the request is one the board is asked about and accepts
BoardAccepts(W, username, to_pos, remove_pos) ==
  /\ W.gd.status \notin {"canceled", "finished"}
  /\ \/ W.game.current_player = PlayerColor(W.gd, username)
     \/ W.gd.waiting_for_removal
  /\ ~ (W.gd.waiting_for_removal /\ remove_pos # NoPos)
  /\ make_move(W.game, NoPos, to_pos, remove_pos).success

\* on_make_move up to the return of game.make_move: the first-move block,
\* then the board; a request that ends there (closed, not the side's turn,
\* refused by the board, or a removal) is handled to its end
MoveBoard ==
  /\ script = << >>
  /\ steps < MaxSessionSteps
  /\ \E username \in Usernames, to_pos \in SessionPositions,
        remove_pos \in SessionPositions \cup {NoPos} :
        IF BoardAccepts(World, username, to_pos, remove_pos)
        THEN /\ SetWorld(
                  [FirstMovePart(World, PlayerColor(gd, username)) EXCEPT
                     !.game = make_move(game, NoPos, to_pos,
                                        remove_pos).g])
             /\ script' = << <<username, NoPos, to_pos, remove_pos,
                               make_move(game, NoPos, to_pos, remove_pos),
                               game.current_player>> >>
             /\ last' = [NoLast EXCEPT !.op = "make_move_board",
                                       !.color = PlayerColor(gd, username)]
             /\ steps' = steps + 1
             /\ UNCHANGED owed
             /\ UNCHANGED lobby
        ELSE Apply(on_make_move(World, username, NoPos, to_pos, remove_pos))

\* on_make_move from "Add move timestamp and timer info to moves" on: the
\* clock is read, switched to the side to move, and the result of the
\* match is looked at
MoveClock ==
  /\ script # << >>
  /\ Replay(MoveSwitched(
              World, Head(script)[5],
              WaitingForRemovalPart(
                 [World EXCEPT !.timer = IF timer.registered
                                         THEN get_current_times(timer, now)
                                         ELSE @],
                 Head(script)[5], PlayerColor(gd, Head(script)[1])),
              PlayerColor(gd, Head(script)[1]), Head(script)[2],
              Head(script)[3], Head(script)[4], Head(script)[6]))

\* an iteration of timer_thread, whenever the thread gets timer_lock
RaceTimerThread ==
  /\ steps < MaxSessionSteps
  /\ timer.thread
  /\ Apply(timer_thread(World))

\* time.time() moves on between two requests
RaceTick ==
  /\ script = << >>
  /\ Tick

InitRace ==
  /\ IsWorld(NewWorld("1+0", "t1", 0))
  /\ script = << >>
  /\ last = NoLast
  /\ steps = 0
  /\ owed = 0
  /\ LobbyIdle

NextRace ==
  \/ MoveBoard
  \/ MoveClock
  \/ RaceTimerThread
  \/ RaceTick

SpecRace == InitRace /\ [][NextRace]_vars

\* the make_move handler of the side color has applied the move to the
\* board and has not switched the clock yet
MoveApplied(color) ==
  /\ script # << >>
  /\ PlayerColor(gd, Head(script)[1]) = color

\* the step is an iteration of the clock poller
IsPoll == last'.op = "timer_thread"

\* C30: the poller never runs between a move's board mutation and its clock
\* switch, so it never declares a loss on time against a side whose move
\* has already been applied to the board
C30_MoveAtomic ==
  [][ IsPoll => /\ script = << >>
                /\ \A color \in Colors :
                      MoveApplied(color)
                        => ~ (/\ last'.outcome = "timeout"
                              /\ gd'.winner = Other(color)) ]_vars

\* the poller has declared a loss on time against the side whose move is on
\* the board
C30_LossAfterMove ==
  /\ last.op = "timer_thread"
  /\ last.outcome = "timeout"
  /\ script # << >>
  /\ gd.winner = Other(PlayerColor(gd, Head(script)[1]))


---------------------------------------------------------------------------
(* One result per match, checked under Spec *)

\* a result is recorded for the match
ResultRecorded == gd.status = "finished" /\ gd.winner # "none"

\* C31: whatever the clock poller, the first-move watcher and the players'
\* actions do on a match and in whatever order, one terminal result is
\* recorded: once it is, the winner stays and the players' ratings and game
\* counters are not updated again
C31_OneResult ==
  [][ ResultRecorded => gd'.winner = gd.winner /\ users' = users ]_vars

\* the same of every step but an accept_draw
C31_OneResultButAcceptDraw ==
  [][ ResultRecorded /\ last'.op # "accept_draw"
        => gd'.winner = gd.winner /\ users' = users ]_vars


---------------------------------------------------------------------------
(* The matchmaker and the pairing engine side by side: the participants of *)
(* an active tournament also send seek_game, and both register their       *)
(* matches in games                                                        *)

HallSeek ==
  /\ steps < MaxHallSteps
  /\ SeekGame

HallPairingRound ==
  /\ steps < MaxHallSteps
  /\ PairingRound

HallRequestPairing ==
  /\ steps < MaxHallSteps
  /\ RequestPairing

HallEndMatch ==
  /\ steps < MaxHallSteps
  /\ EndTournamentMatch

NextHall ==
  \/ HallSeek
  \/ HallPairingRound
  \/ HallRequestPairing
  \/ HallEndMatch

SpecHall == InitArena /\ [][NextHall]_vars

\* the unfinished matches in which the user is white or black
OpenMatchesOf(username) ==
  { i \in 1..Len(games) : /\ games[i].gd.status # "finished"
                          /\ username \in MatchPlayers(games[i]) }

\* C32: at no time is a player white or black in two unfinished matches
C32_OneOpenMatch ==
  \A username \in Players : Cardinality(OpenMatchesOf(username)) <= 1

\* the same of the matches the pairing engine alone creates
C32_OneOpenTournamentMatch ==
  \A username \in Players :
     Cardinality({ i \in OpenMatchesOf(username) :
                     games[i].gd.tournament_id # "none" }) <= 1


---------------------------------------------------------------------------
(* Whose request changes the board, checked under SpecBoard *)

\* the step handles a make_move sent by the player who is not the side to
\* move
SentByOtherSide ==
  /\ last'.op = "make_move"
  /\ last'.color # game.current_player

\* C33: only the player whose colour is the side to move can change the
\* board: a make_move sent by the other player is ignored in every state,
\* also while a capture is awaited after a mill
C33_OnlySideToMove ==
  [][ SentByOtherSide => game' = game ]_vars

\* the same while no capture is awaited
C33_OnlySideToMoveUnlessAwaited ==
  [][ SentByOtherSide /\ ~ gd.waiting_for_removal => game' = game ]_vars


---------------------------------------------------------------------------
(* Draw offers, declines and acceptances of one match *)

\* on_offer_draw: [W, last]; the offer is sent to the opponent's sessions
\* and recorded nowhere
on_offer_draw(W, username) ==
  [W |-> W,
   last |-> [NoLast EXCEPT !.op = "offer_draw",
               !.outcome = IF username \in {W.gd.white, W.gd.black}
                           THEN "sent" ELSE "ignored",
               !.color = PlayerColor(W.gd, username)]]

\* on_decline_draw: [W, last]; the decline is sent to the room only
on_decline_draw(W, username) ==
  [W |-> W,
   last |-> [NoLast EXCEPT !.op = "decline_draw",
               !.outcome = IF username \in {W.gd.white, W.gd.black}
                           THEN "sent" ELSE "ignored",
               !.color = PlayerColor(W.gd, username)]]

OfferDraw ==
  /\ steps < MaxSessionSteps
  /\ \E username \in Usernames : Apply(on_offer_draw(World, username))

DeclineDraw ==
  /\ steps < MaxSessionSteps
  /\ \E username \in Usernames : Apply(on_decline_draw(World, username))

NextDraw ==
  \/ OfferDraw
  \/ DeclineDraw
  \/ AcceptDraw
  \/ SessionMove
  \/ Resign
  \/ Tick

SpecDraw == Init /\ [][NextDraw]_vars

\* the step ends the match as a draw by agreement
DrawnByAgreement ==
  /\ gd.status # "finished"
  /\ gd'.status = "finished"
  /\ gd'.end_reason = "agreement"

\* C34: a match is finished as a draw by agreement only when the accepting
\* player's opponent has made a draw offer in that match that is still
\* outstanding; in particular not by an accept_draw that is the first
\* event of the match, when nobody has offered anything yet
C34_DrawNeedsOffer ==
  [][ steps = 0 => ~ DrawnByAgreement ]_vars

\* a draw offer and its decline leave the match, the clock and the
\* accounts as they were
C34_OfferLeavesNoTrace ==
  [][ last'.op \in {"offer_draw", "decline_draw"}
        => UNCHANGED <<game, gd, timer, users, tournaments,
                       players_in_game_menu>> ]_vars


---------------------------------------------------------------------------
(* The players of a finished tournament match, checked under Spec *)

\* the step finishes a match of a tournament that is active
TournamentMatchTerminated ==
  /\ MatchTerminated
  /\ gd.tournament_id # "none"
  /\ tournaments'.exists
  /\ tournaments'.status = "active"

\* both players of the match are in the post-game menu set
BothInGameMenu ==
  ({gd.white, gd.black} \cap tournaments'.roster) \subseteq players_in_game_menu'

\* C35: when a tournament match finishes for any reason while its
\* tournament is active, both players are put in the post-game menu set
C35_FinishedPlayersInMenu ==
  [][ TournamentMatchTerminated => BothInGameMenu ]_vars

\* the same for every ending but the clock's timeout
C35_InMenuUnlessTimeout ==
  [][ TournamentMatchTerminated /\ gd'.end_reason # "timeout"
        => BothInGameMenu ]_vars


---------------------------------------------------------------------------
(* Readiness after a tournament match: on_tournament_back_to_lobby and    *)
(* its delayed_requeue threads beside the pairing rounds.  A thread is    *)
(* the player it was started for and the time its sleep of 5 s ends       *)

\* events explored when players signal readiness
MaxReadySteps == 6
\* time explored after the first pairing round, in seconds
MaxReadySeconds == 6

\* on_tournament_back_to_lobby, sent by a player who is in the after-game
\* menu: the player leaves the menu and the paused set, and a
\* delayed_requeue thread is started
BackToLobby ==
  /\ steps < MaxReadySteps
  /\ tournaments.status = "active"
  /\ \E username \in players_in_game_menu :
        /\ players_in_game_menu' = players_in_game_menu \ {username}
        /\ paused_users' = paused_users \ {username}
        /\ delayed_requeue' = delayed_requeue
             \cup {[username |-> username, wake |-> now + Seconds(5)]}
        /\ last' = LobbyLast("tournament_back_to_lobby", "none", username,
                             "none")
  /\ steps' = steps + 1
  /\ UNCHANGED <<game, gd, timer, users, tournaments, now, script, owed,
                 game_rooms, games, banned_users,
                 tournament_recent_opponents>>

\* delayed_requeue once its sleep is over
DelayedRequeue ==
  /\ \E th \in delayed_requeue, player1_first \in BOOLEAN :
        /\ now >= th.wake
        /\ delayed_requeue' = delayed_requeue \ {th}
        /\ LET A == IF th.username \in tournaments.roster
                    THEN match_tournament_players(
                           tournaments, Arena, paused_users,
                           players_in_game_menu, th.username, player1_first)
                    ELSE Arena
           IN /\ games' = A.games
              /\ tournament_recent_opponents' = A.recent
              /\ last' = LobbyLast("delayed_requeue",
                                   IF Len(A.games) > Len(games)
                                   THEN "paired" ELSE "none",
                                   th.username, "none")
  /\ UNCHANGED <<game, gd, timer, users, tournaments, players_in_game_menu,
                 now, steps, script, owed, game_rooms, banned_users,
                 paused_users>>

\* run_tournament_pairing_round while no after-game menu is older than
\* 15 s, which holds for the MaxReadySeconds explored
ReadyPairingRound ==
  /\ steps < MaxReadySteps
  /\ \E player1_first \in BOOLEAN :
        ArenaStep(run_tournament_pairing_round(
                     tournaments, Arena, paused_users, players_in_game_menu,
                     player1_first),
                  "run_tournament_pairing_round", "none")
  /\ UNCHANGED <<tournaments, paused_users, players_in_game_menu>>

ReadyEndMatch ==
  /\ steps < MaxReadySteps
  /\ EndTournamentMatch

\* time.time() moves on by the period of run_continuous_pairing
ReadyTick ==
  /\ now + Seconds(3) <= Seconds(MaxReadySeconds)
  /\ now' = now + Seconds(3)
  /\ last' = [NoLast EXCEPT !.op = "tick"]
  /\ UNCHANGED <<game, gd, timer, users, tournaments, players_in_game_menu,
                 steps, script, owed>>
  /\ UNCHANGED lobby

NextReady ==
  \/ BackToLobby
  \/ DelayedRequeue
  \/ ReadyPairingRound
  \/ ReadyEndMatch
  \/ ReadyTick

SpecReady == InitArena /\ [][NextReady]_vars

\* the players of the matches the step created
NewlyPaired ==
  UNION { MatchPlayers(games'[i]) : i \in (Len(games) + 1)..Len(games') }

\* the players of a finished match whose delayed_requeue thread still
\* sleeps
StillDelayed ==
  { u \in { th.username : th \in { d \in delayed_requeue : now < d.wake } } :
      \E i \in 1..Len(games) :
         games[i].gd.status = "finished" /\ u \in MatchPlayers(games[i]) }

\* C36: a player who signalled readiness after a tournament match is not
\* paired into a new match before the 5 s delay since the signal is over
C36_NotPairedBeforeDelay ==
  [][ NewlyPaired \cap StillDelayed = {} ]_vars


---------------------------------------------------------------------------
(* The increment of the first side switch, checked under SpecClock *)

\* the step is a call of switch_player
IsSwitch == last'.op = "switch_player"

\* the step adds no time to either side
NoTimeCredited ==
  /\ timer'.white_time <= timer.white_time
  /\ timer'.black_time <= timer.black_time

\* C37: the first side switch a clock processes (move counter 0) credits
\* no increment; an increment is credited only when increment > 0 and the
\* clock has already processed at least one earlier switch
C37_NoIncrementOnFirstSwitch ==
  [][ IsSwitch /\ (timer.move_count = 0 \/ timer.increment = 0)
        => NoTimeCredited ]_vars

\* no increment is credited when the increment is 0 or the clock is not
\* running
C37_NoIncrementWithoutOne ==
  [][ IsSwitch /\ (timer.increment = 0 \/ timer.state # TIMER_RUNNING)
        => NoTimeCredited ]_vars



---------------------------------------------------------------------------
(* The clock poller beside a resignation, at the grain of timer_lock:      *)
(* timer_thread is a threading.Thread that reads the match's status and    *)
(* records a timeout inside one `with timer_lock` block, and on_resign     *)
(* writes the status outside the lock and waits for the lock in            *)
(* stop_game_timer.  Here script holds who is inside its operation:        *)
(* <<"timer_thread", "none">> for the poller that holds the lock and has   *)
(* found the match open, <<"resign", username>> for the handler that has   *)
(* written the result and has not stopped the clock yet                    *)

PollerInside == \E k \in 1..Len(script) : script[k][1] = "timer_thread"

ResignInside == \E k \in 1..Len(script) : script[k][1] = "resign"

Without(entries, op) == SelectSeq(entries, LAMBDA e : e[1] # op)

\* timer_thread takes timer_lock and tests the registry and the status; an
\* iteration that stops there runs to its end
PollEnter ==
  /\ timer.thread
  /\ ~ PollerInside
  /\ IF ~ timer.registered \/ gd.status \in {"canceled", "finished"}
     THEN Observe(timer_thread(World))
     ELSE /\ script' = Append(script, <<"timer_thread", "none">>)
          /\ last' = [NoLast EXCEPT !.op = "timer_thread_enter"]
          /\ UNCHANGED <<game, gd, timer, users, tournaments,
                         players_in_game_menu, now, steps, owed>>
          /\ UNCHANGED lobby

\* the rest of the iteration, up to the release of timer_lock
PollRecord ==
  /\ PollerInside
  /\ SetWorld(PollOpenMatch(World).W)
  /\ last' = PollOpenMatch(World).last
  /\ script' = Without(script, "timer_thread")
  /\ UNCHANGED <<steps, owed>>
  /\ UNCHANGED lobby

\* on_resign up to "End the game immediately"; a request it rejects ends
\* there
ResignMark ==
  /\ steps < MaxSessionSteps
  /\ ~ ResignInside
  /\ \E username \in Usernames :
        IF gd.status = "finished" \/ gd.winner # "none"
        THEN /\ SetWorld(on_resign(World, username).W)
             /\ last' = on_resign(World, username).last
             /\ script' = script
        ELSE /\ gd' = [gd EXCEPT
                         !.status = "finished",
                         !.winner = Other(PlayerColor(gd, username)),
                         !.end_reason = "resignation"]
             /\ script' = Append(script, <<"resign", username>>)
             /\ last' = [NoLast EXCEPT !.op = "resign_result",
                                       !.color = PlayerColor(gd, username)]
             /\ UNCHANGED <<game, timer, users, tournaments,
                            players_in_game_menu, now>>
  /\ steps' = steps + 1
  /\ UNCHANGED owed
  /\ UNCHANGED lobby

\* on_resign from stop_game_timer on, once timer_lock is free; winner is
\* the handler's local variable
ResignRest ==
  /\ ResignInside
  /\ ~ PollerInside
  /\ \E k \in 1..Len(script) :
        /\ script[k][1] = "resign"
        /\ SetWorld(Requeue(Score(Rate(stop_game_timer(World),
                                       Other(PlayerColor(gd, script[k][2]))),
                                  Other(PlayerColor(gd, script[k][2])))))
        /\ last' = [NoLast EXCEPT !.op = "resign", !.outcome = "accepted",
                                  !.color = PlayerColor(gd, script[k][2])]
  /\ script' = Without(script, "resign")
  /\ UNCHANGED <<steps, owed>>
  /\ UNCHANGED lobby

\* a make_move event between two other operations
PollMove ==
  /\ script = << >>
  /\ steps < MaxSessionSteps
  /\ \E username \in Usernames, to_pos \in SessionPositions :
        Apply(on_make_move(World, username, NoPos, to_pos, NoPos))

\* time.time() moves on
PollTick ==
  /\ script = << >>
  /\ Tick

NextPoll ==
  \/ PollEnter
  \/ PollRecord
  \/ ResignMark
  \/ ResignRest
  \/ PollMove
  \/ PollTick

SpecPoll == InitRace /\ [][NextPoll]_vars

\* the poller leaves the result, the ratings and the scores as they are
PollerRecordsNothing ==
  /\ gd' = gd
  /\ users' = users
  /\ tournaments' = tournaments

PollerGone == ~ timer.thread /\ ~ timer.registered

\* with every handler and every iteration of the poller taken as one step,
\* and under fair polling: after the match has become finished the poller
\* terminates and the clock leaves the registry, for good, and the poller
\* records no further result
C38_PollerRetires ==
  /\ (gd.status = "finished") ~> [] PollerGone
  /\ [][ gd.status = "finished" /\ IsPoll => PollerRecordsNothing ]_vars


---------------------------------------------------------------------------
(* The end of a tournament while one of its matches is played: the        *)
(* tournament ends when start_scheduled_tournaments finds its end time    *)
(* reached, or when an administrator ends it                              *)

\* start_scheduled_tournaments on an active tournament whose end time has
\* come
EndByTime ==
  /\ tournaments.exists
  /\ tournaments.status = "active"
  /\ tournaments' = [tournaments EXCEPT !.status = "finished"]
  /\ last' = [NoLast EXCEPT !.op = "start_scheduled_tournaments"]
  /\ UNCHANGED <<game, gd, timer, users, players_in_game_menu, now, steps,
                 script, owed>>
  /\ UNCHANGED lobby

\* the administrator's end command: the tournament is finished and its
\* unfinished matches no longer count for points
ForceEnd ==
  /\ tournaments.exists
  /\ tournaments.status = "active"
  /\ tournaments' = [tournaments EXCEPT !.status = "finished"]
  /\ gd' = [gd EXCEPT !.tournament_points_disabled =
                         IF gd.status # "finished" THEN TRUE ELSE @]
  /\ last' = [NoLast EXCEPT !.op = "end_tournament"]
  /\ UNCHANGED <<game, timer, users, players_in_game_menu, now, steps,
                 script, owed>>
  /\ UNCHANGED lobby

\* the pairing engine pairs the two again while the tournament is active
CloseRematch ==
  /\ tournaments.status = "active"
  /\ SeriesRematch

CloseBerserk ==
  /\ tournaments.exists
  /\ SeriesBerserk

CloseResign ==
  /\ tournaments.exists
  /\ SeriesResign

CloseAcceptDraw ==
  /\ tournaments.exists
  /\ SeriesAcceptDraw

NextClose ==
  \/ EndByTime
  \/ ForceEnd
  \/ CloseRematch
  \/ CloseBerserk
  \/ CloseResign
  \/ CloseAcceptDraw

SpecClose == InitSeries /\ [][NextClose]_vars

\* the scores and the win streaks of the participants stay as they are
StandingsUnchanged ==
  /\ \A u \in tournaments.roster :
        tournaments'.players[u].score = tournaments.players[u].score
  /\ tournaments'.streaks = tournaments.streaks

\* C39: once a tournament is finished, by reaching its end time or by
\* force-end, no participant's score or win-streak counter changes any
\* more, even when a match of that tournament ends afterwards
C39_FinishedTournamentFrozen ==
  [][ tournaments.status = "finished" => StandingsUnchanged ]_vars

\* the same while the open match was marked by the administrator's end
C39_FrozenAfterForceEnd ==
  [][ tournaments.status = "finished" /\ gd.tournament_points_disabled
        => StandingsUnchanged ]_vars


---------------------------------------------------------------------------
(* The continuous pairing loop under fairness: run_continuous_pairing      *)
(* runs a pairing round every 3 s for as long as the server lives, while   *)
(* tournament matches end                                                  *)

\* run_tournament_pairing_round as an iteration of the loop; stuck are the
\* players whose after-game menu is older than 15 s
LoopPairingRound ==
  /\ \E stuck \in SUBSET players_in_game_menu, player1_first \in BOOLEAN :
        \E A \in { run_tournament_pairing_round(
                     tournaments, Arena, paused_users,
                     players_in_game_menu \ stuck, player1_first) } :
           /\ players_in_game_menu' = players_in_game_menu \ stuck
           /\ games' = A.games
           /\ tournament_recent_opponents' = A.recent
           /\ last' = LobbyLast("run_tournament_pairing_round",
                                IF Len(A.games) > Len(games)
                                THEN "paired" ELSE "none", "none", "none")
  /\ UNCHANGED <<game, gd, timer, users, tournaments, now, steps, script,
                 owed, game_rooms, banned_users, paused_users,
                 delayed_requeue>>

LoopEndMatch ==
  /\ steps < MaxLiveSteps
  /\ EndTournamentMatch

NextPairing ==
  \/ LoopPairingRound
  \/ LoopEndMatch

SpecPairing ==
  /\ InitArena
  /\ [][NextPairing]_vars
  /\ WF_vars(LoopPairingRound)

\* the participant is not paused, not in a match and not in the after-game
\* menu
Available(u) ==
  /\ u \in tournaments.roster
  /\ IsAvailable(games, paused_users, players_in_game_menu, u)

C40_PairedUnlessLastOpponents ==
  \A u \in Players : \A v \in Players \ {u} :
     []<> ~ (/\ tournaments.status = "active"
             /\ Available(u) /\ Available(v)
             /\ MayPair(tournament_recent_opponents, u, v))

=============================================================================
